---- MODULE Spec2Model ----
(***************************************************************************)
(* GPU-Miner orchestration core: the challenge poller, the scheduling loop *)
(* (MinerManager._manage_mining), the compute request/response channels,   *)
(* wallet provisioning (WalletManager), the persistence queries (Database) *)
(* and the background submission pipeline (SolutionSubmissionQueue).       *)
(*                                                                         *)
(* Time.  The code stores absolute timestamps (a challenge's               *)
(* latest_submission, a submission's created_at) and compares them with    *)
(* datetime.now().  The model stores the same quantities relative to the   *)
(* present: a deadline as the seconds left until it, created_at as the age *)
(* now - created_at.  Tick(dt) lets dt seconds pass and shifts every       *)
(* stored quantity; values are saturated where the code can no longer tell *)
(* them apart (a deadline at most 120 s away, an age beyond the retention  *)
(* horizon).                                                               *)
(***************************************************************************)
EXTENDS Integers, Sequences, FiniteSets, TLC

(***************************************************************************)
(* Bounds of the model                                                     *)
(***************************************************************************)
\* wallets that provisioning can persist in one run (user pool and fee pool together)
MaxWallets == 2
\* found nonces the compute worker reports in one run
MaxSolutions == 2
\* mine requests the scheduler dispatches in one run
MaxRequests == 2
\* transient deferrals an item can be ahead of the clock (passes without time passing)
MaxDefer == 2
\* value at which the attempts counter of a pending submission stops being counted
MaxAttempts == 3
\* passes of the pipeline loop that handle one item within one clock instant (a pass
\* is 0.1 s to 1.1 s after the one before it)
MaxBurst == 2
\* submissions pending in the pipeline at a time, when it is explored on its own
MaxPending == 1
\* rows of the challenges table, when the best-unsolved query is explored on its own
MaxRows == 2
\* miner.max_workers of the configuration under which the scheduler is explored
max_workers == 2

(***************************************************************************)
(* Program constants                                                       *)
(***************************************************************************)
\* database.py:289  time_left <= 120
SAFETY_MARGIN == 120
\* networking.py:95  retry_delay = 300
retry_delay == 300
\* networking.py:18  api.solution_retry_hours, default 24
retry_hours == 24
\* database.py:294 and miner_manager.py:285-286  difficulty[:8], ljust(8, '0')
DIFF_PREFIX == 8
\* wallet_manager.py:13  _dev_wallet_floor
dev_wallet_floor == 2
\* miner_manager.py:118  ensure_wallets(count=5)
INITIAL_WALLETS == 5
\* miner_manager.py:122  ensure_dev_wallets(count=2)
INITIAL_DEV_WALLETS == 2

RetentionHorizon == retry_hours * 3600
HalfDay == 12 * 3600
\* saturation points of the relative clock
TimeLeftFloor == SAFETY_MARGIN - 1
AgeCeiling == RetentionHorizon + 1
AgeFloor == 0 - (MaxDefer * retry_delay)

Min(a, b) == IF a <= b THEN a ELSE b
Max(a, b) == IF a >= b THEN a ELSE b

(***************************************************************************)
(* Values                                                                  *)
(***************************************************************************)
\* A difficulty string is a sequence of characters: 0..15 are the hex digits,
\* NonHex is any character int(.., 16) rejects.
NonHex == 16
D10 == <<0, 0, 0, 0, 0, 0, 1, 0>>
D20 == <<0, 0, 0, 0, 0, 0, 2, 0>>
DShort == <<1, 15>>
DBad == <<0, NonHex>>

\* latest_submission as the code meets it
Aware(left) == [kind |-> "aware", left |-> left]     \* ISO string with offset or Z
Naive == [kind |-> "naive", left |-> 0]              \* ISO string without offset
Unparseable == [kind |-> "bad", left |-> 0]          \* fromisoformat raises
Missing == [kind |-> "missing", left |-> 0]          \* None or ''

NoRom == ""
NoChallenge == [challenge_id |-> "none", difficulty |-> <<>>, no_pre_mine |-> NoRom,
                latest_submission |-> Missing]
Challenge(id, d, rom, dl) == [challenge_id |-> id, difficulty |-> d, no_pre_mine |-> rom,
                              latest_submission |-> dl]

\* What GET /challenge may answer in the explored runs.
Feed == { Challenge("c1", D10, "r1", Aware(HalfDay + SAFETY_MARGIN + 1)) }

\* wallet addresses are 1, 2, ...; NoWallet is "no wallet selected" (None)
NoWallet == 0

Nonces == {1}
\* a response without a nonce (result.get('nonce') is None)
NoNonce == 0

Outcomes == {"accepted", "fatal", "transient"}

\* the value of `returned` before any call
NotAsked == [asked |-> FALSE, wallet |-> NoWallet, challenge |-> NoChallenge]

VARIABLES
  \* --- MinerManager, shared between its threads
  latest_challenge,          \* self.latest_challenge (NoChallenge = None)
  poller_pc,                 \* _poll_challenge_loop: "fetch" | "register"
  \* --- Database
  db_challenges,             \* table challenges, rows in rowid order
  db_wallets,                \* table wallets, rows in rowid order
  wallet_challenges,         \* table wallet_challenges: set of <<wallet_address, challenge_id>>
  solutions,                 \* table solutions, rows in rowid order
  \* --- _manage_mining
  sched_pc,                  \* "start" | "cycle" | "wait" (blocked on the response queue)
  wallets,                   \* local list of user wallet addresses
  dev_wallets,               \* local list of fee wallet addresses
  wallet_index,
  dev_wallet_index,
  req_id,
  batch_metadata,            \* the batch in flight
  session_solutions,
  dev_session_solutions,
  wallet_session_solutions,
  \* --- compute channels
  gpu_queue,
  gpu_response_queue,
  \* --- SolutionSubmissionQueue
  queue,                     \* self.queue
  retry_queue,               \* _process_queue's retry_queue
  \* --- the remote service, as the submission endpoint saw the run
  remote_accepted,           \* pairs it accepted
  remote_rejected,           \* pairs it rejected with 400/409
  late_calls,                \* <<w, c, kind>>: a call for (w, c) after it had answered kind
  call_flags,                \* kinds of call the pipeline has made: "overdue", "early"
  \* --- a caller of the best-unsolved query
  returned,                  \* what the last call of get_unsolved_challenge_for_wallet returned
  \* --- MinerManager: life cycle and dashboard figures
  running,                   \* self.running
  gpu_process,               \* the worker process: "none" | "initialising" | "serving" |
                             \*   "wedged" | "crashed" | "exited"
  stop_calls,                \* the calls of stop() in progress, innermost last, each at
                             \*   "enter" | "graceful" | "terminated" | "killed"
  stops_made,                \* how many calls of stop() have begun
  worker_signals,            \* what stop() has sent the worker, in order
  dashboard_pc,              \* _update_dashboard_loop: "idle" | "loop" | "done"
  queue_running,             \* SolutionSubmissionQueue.running
  current_hashrate           \* self.current_hashrate, with the count of samples taken

pollVars == <<latest_challenge, poller_pc>>
dbVars == <<db_challenges, db_wallets, wallet_challenges, solutions>>
schedVars == <<sched_pc, wallets, dev_wallets, wallet_index, dev_wallet_index, req_id,
               batch_metadata, session_solutions, dev_session_solutions,
               wallet_session_solutions>>
gpuVars == <<gpu_queue, gpu_response_queue>>
pipeVars == <<queue, retry_queue>>
remoteVars == <<remote_accepted, remote_rejected, late_calls, call_flags>>
lifeVars == <<running, gpu_process, stop_calls, stops_made, worker_signals, dashboard_pc,
              queue_running>>
vars == <<pollVars, dbVars, schedVars, gpuVars, pipeVars, remoteVars, returned, lifeVars,
          current_hashrate>>

(***************************************************************************)
(* Database.get_unsolved_challenge_for_wallet                              *)
(***************************************************************************)
RECURSIVE HexValue(_)
\* int(s, 16) for a non-empty string of hex digits
HexValue(s) == IF s = <<>> THEN 0 ELSE HexValue(SubSeq(s, 1, Len(s) - 1)) * 16 + s[Len(s)]

Prefix(s, n) == SubSeq(s, 1, Min(n, Len(s)))
IsHex(s) == s # <<>> /\ \A i \in 1..Len(s) : s[i] # NonHex

\* database.py:293-296  int(difficulty[:8], 16); -1 stands for "raises"
QueryDifficulty(d) == IF IsHex(Prefix(d, DIFF_PREFIX)) THEN HexValue(Prefix(d, DIFF_PREFIX)) ELSE -1

\* the margin test, had it let a challenge exactly at the margin through
TooLate_strict(time_left) == time_left < SAFETY_MARGIN

\* database.py:288-290  the margin test on (deadline - now).total_seconds()
TooLate(time_left) == time_left <= SAFETY_MARGIN

\* database.py:264-270  the rows the SELECT yields for the wallet, in rowid order
UnsolvedRows(rows, solved, w) ==
  SelectSeq(rows, LAMBDA r : <<w, r.challenge_id>> \notin solved)

RECURSIVE ScanRows(_, _, _)
\* database.py:276-317  the loop over the rows; best = NoChallenge is "best is None"
ScanRows(rows, i, best) ==
  IF i > Len(rows) THEN best
  ELSE LET row == rows[i]
           dl == row.latest_submission
           dv == QueryDifficulty(row.difficulty)
       IN IF dl.kind \in {"missing", "bad"} THEN ScanRows(rows, i + 1, best)
          ELSE IF TooLate(dl.left) THEN ScanRows(rows, i + 1, best)
          ELSE IF dv = -1 THEN ScanRows(rows, i + 1, best)
          ELSE IF best = NoChallenge \/ dv < QueryDifficulty(best.difficulty)
               THEN ScanRows(rows, i + 1, row)
          ELSE IF dv = QueryDifficulty(best.difficulty)
                  /\ dl.left < best.latest_submission.left
               THEN ScanRows(rows, i + 1, row)
          ELSE ScanRows(rows, i + 1, best)

\* database.py:254-322  a row whose deadline parses without an offset makes
\* deadline - now raise, and the outer handler returns None for the whole call
BestUnsolved(rows, solved, w) ==
  LET mine == UnsolvedRows(rows, solved, w)
  IN IF \E i \in 1..Len(mine) : mine[i].latest_submission.kind = "naive"
     THEN NoChallenge
     ELSE ScanRows(mine, 1, NoChallenge)

get_unsolved_challenge_for_wallet(w) == BestUnsolved(db_challenges, wallet_challenges, w)

(***************************************************************************)
(* WalletManager                                                           *)
(***************************************************************************)
Addresses(rows) == [i \in 1..Len(rows) |-> rows[i].address]
\* database.py:130-137  get_wallets()
get_wallets(dbw) == Addresses(SelectSeq(dbw, LAMBDA r : ~r.is_dev_wallet))
\* database.py:139-143  get_dev_wallets()
get_dev_wallets(dbw) == Addresses(SelectSeq(dbw, LAMBDA r : r.is_dev_wallet))

\* database.py:110-128  add_wallet for n freshly generated wallets; an address is
\* the wallet's rank of creation
AddWallets(dbw, n, is_dev) ==
  dbw \o [i \in 1..n |-> [address |-> Len(dbw) + i, is_dev_wallet |-> is_dev]]

\* How many of the `needed` creations persist a wallet: `made` of them pass
\* registration and add_wallet, and MaxWallets caps the run.
Created(dbw, needed, made) == Max(0, Min(Min(needed, made), MaxWallets - Len(dbw)))

\* wallet_manager.py:172-237  ensure_dev_wallets(count); the caller reads
\* get_dev_wallets of the result
ensure_dev_wallets(dbw, count, made) ==
  LET current_count == Len(get_dev_wallets(dbw))
  IN IF current_count >= count THEN dbw
     ELSE AddWallets(dbw, Created(dbw, count - current_count, made), TRUE)

\* wallet_manager.py:15-37  _ensure_dev_fee_pool(wallet_count)
ensure_dev_fee_pool(dbw, user_wallet_count, made) ==
  LET target == Max(dev_wallet_floor, Max(1, user_wallet_count \div 4))
  IN IF Len(get_dev_wallets(dbw)) >= target THEN dbw
     ELSE ensure_dev_wallets(dbw, target, made)

\* wallet_manager.py:117-154  ensure_wallets(count); the caller reads get_wallets
\* of the result
ensure_wallets(dbw, count, made, dev_made) ==
  LET current_count == Len(get_wallets(dbw))
      db1 == IF current_count >= count THEN dbw
             ELSE AddWallets(dbw, Created(dbw, count - current_count, made), FALSE)
  IN ensure_dev_fee_pool(db1, Len(get_wallets(db1)), dev_made)

(***************************************************************************)
(* Initial state: the threads of MinerManager.start() and of the pipeline  *)
(* are running, nothing has been polled or provisioned, the store is new.  *)
(***************************************************************************)
\* start() has returned, the worker is serving and nobody has asked to stop
Started ==
  /\ running = TRUE
  /\ gpu_process = "serving"
  /\ stop_calls = <<>>
  /\ stops_made = 0
  /\ worker_signals = <<>>
  /\ dashboard_pc = "loop"
  /\ queue_running = TRUE

\* miner_manager.py:135  self.current_hashrate = 0
NoHashrate == [rate |-> 0, samples |-> 0]

Init ==
  /\ latest_challenge = NoChallenge
  /\ poller_pc = "fetch"
  /\ db_challenges = <<>>
  /\ db_wallets = <<>>
  /\ wallet_challenges = {}
  /\ solutions = <<>>
  /\ sched_pc = "start"
  /\ wallets = <<>>
  /\ dev_wallets = <<>>
  /\ wallet_index = 0
  /\ dev_wallet_index = 0
  /\ req_id = 0
  /\ batch_metadata = <<>>
  /\ session_solutions = 0
  /\ dev_session_solutions = 0
  /\ wallet_session_solutions = <<>>
  /\ gpu_queue = <<>>
  /\ gpu_response_queue = <<>>
  /\ queue = <<>>
  /\ retry_queue = <<>>
  /\ remote_accepted = {}
  /\ remote_rejected = {}
  /\ late_calls = {}
  /\ call_flags = {}
  /\ returned = NotAsked
  /\ Started
  /\ current_hashrate = NoHashrate

(***************************************************************************)
(* Time                                                                    *)
(***************************************************************************)
ElapseDeadline(dl, dt) ==
  IF dl.kind = "aware" THEN Aware(Max(dl.left - dt, TimeLeftFloor)) ELSE dl
ElapseChallenge(c, dt) ==
  [c EXCEPT !.latest_submission = ElapseDeadline(c.latest_submission, dt)]
\* since_fail = -1: no attempt of the item has failed transiently yet
ElapseItem(it, dt) ==
  [it EXCEPT !.age = Min(it.age + dt, AgeCeiling),
             !.elapsed = Min(it.elapsed + dt, AgeCeiling),
             !.since_fail = IF it.since_fail < 0 THEN it.since_fail
                            ELSE Min(it.since_fail + dt, retry_delay),
             !.burst = 0]

\* dt seconds pass
Tick(dt) ==
  /\ latest_challenge' = ElapseChallenge(latest_challenge, dt)
  /\ db_challenges' = [i \in 1..Len(db_challenges) |-> ElapseChallenge(db_challenges[i], dt)]
  /\ queue' = [i \in 1..Len(queue) |-> ElapseItem(queue[i], dt)]
  /\ retry_queue' = [i \in 1..Len(retry_queue) |-> ElapseItem(retry_queue[i], dt)]
  /\ UNCHANGED <<poller_pc, db_wallets, wallet_challenges, solutions, schedVars, gpuVars,
                 remoteVars, returned, lifeVars,
                 current_hashrate>>

(***************************************************************************)
(* MinerManager._poll_challenge_loop                                       *)
(***************************************************************************)
\* database.py:234-252  INSERT OR REPLACE: the row of the same id goes, the new
\* row gets the next rowid
register_challenge(rows, challenge) ==
  Append(SelectSeq(rows, LAMBDA r : r.challenge_id # challenge.challenge_id), challenge)

\* miner_manager.py:75-78  a challenge is fetched and becomes the snapshot;
\* a failed or empty fetch leaves everything as it is
PollFetch ==
  /\ poller_pc = "fetch"
  /\ \E challenge \in Feed :
       /\ latest_challenge' = challenge
       /\ poller_pc' = "register"
  /\ UNCHANGED <<dbVars, schedVars, gpuVars, pipeVars, remoteVars, returned, lifeVars,
                 current_hashrate>>

\* miner_manager.py:80-83  the fetched challenge is registered
PollRegister ==
  /\ poller_pc = "register"
  /\ db_challenges' = register_challenge(db_challenges, latest_challenge)
  /\ poller_pc' = "fetch"
  /\ UNCHANGED <<latest_challenge, db_wallets, wallet_challenges, solutions, schedVars,
                 gpuVars, pipeVars, remoteVars, returned, lifeVars,
                 current_hashrate>>

(***************************************************************************)
(* MinerManager._manage_mining: provisioning and selection                 *)
(***************************************************************************)
\* miner_manager.py:116-127  the wallets the loop starts with; made, dev_made and
\* dev_made2 are the creations that succeed in the three provisioning calls
Provision ==
  /\ sched_pc = "start"
  /\ \E made \in 0..Min(INITIAL_WALLETS, MaxWallets), dev_made \in 0..dev_wallet_floor,
        dev_made2 \in 0..INITIAL_DEV_WALLETS :
       LET db1 == ensure_wallets(db_wallets, INITIAL_WALLETS, made, dev_made)
           db2 == ensure_dev_wallets(db1, INITIAL_DEV_WALLETS, dev_made2)
       IN /\ db_wallets' = db2
          /\ wallets' = get_wallets(db1)
          /\ dev_wallets' = get_dev_wallets(db2)
  /\ sched_pc' = "cycle"
  /\ UNCHANGED <<pollVars, db_challenges, wallet_challenges, solutions, wallet_index,
                 dev_wallet_index, req_id, batch_metadata, session_solutions,
                 dev_session_solutions, wallet_session_solutions, gpuVars, pipeVars,
                 remoteVars, returned, lifeVars,
                 current_hashrate>>

Last(seq) == seq[Len(seq)]

\* miner_manager.py:178-191 and 205-224  the scan of a pool from its cursor: the
\* offset idx of the first wallet with an eligible challenge, -1 when there is none
FirstWithWork(pool, cursor) ==
  LET n == Len(pool)
      hits == {idx \in 0..(n - 1) :
                 get_unsolved_challenge_for_wallet(pool[((cursor + idx) % n) + 1]) # NoChallenge}
  IN IF hits = {} THEN -1 ELSE CHOOSE idx \in hits : \A j \in hits : idx <= j

\* miner_manager.py:194-202 and 228-237  no fee wallet has work: one more is asked
\* for and the last wallet of the returned pool is paired with the polled challenge
GrowDevPool(cur, made) ==
  LET db1 == ensure_dev_wallets(db_wallets, Len(dev_wallets) + 1, made)
      pool == get_dev_wallets(db1)
  IN [wallet |-> IF pool # <<>> THEN Last(pool) ELSE NoWallet,
      challenge |-> IF pool # <<>> THEN cur ELSE NoChallenge,
      db |-> db1, wallets |-> wallets, dev_wallets |-> pool,
      wallet_index |-> wallet_index, dev_wallet_index |-> dev_wallet_index,
      raised |-> pool = <<>>]

\* miner_manager.py:239-245  no user wallet has work: one more is asked for and
\* the last wallet of the returned pool is paired with the polled challenge
\* (wallets[-1] of an empty pool raises IndexError)
GrowUserPool(cur, made, dev_made) ==
  LET db1 == ensure_wallets(db_wallets, Len(wallets) + 1, made, dev_made)
      pool == get_wallets(db1)
  IN [wallet |-> IF pool # <<>> THEN Last(pool) ELSE NoWallet,
      challenge |-> IF pool # <<>> THEN cur ELSE NoChallenge,
      db |-> db1, wallets |-> pool, dev_wallets |-> dev_wallets,
      wallet_index |-> wallet_index, dev_wallet_index |-> dev_wallet_index,
      raised |-> pool = <<>>]

\* miner_manager.py:173-245  the primary pair of a cycle
Select(use_dev_wallet, made, dev_made) ==
  LET cur == latest_challenge
      dev_branch == use_dev_wallet /\ dev_wallets # <<>>
      pool == IF dev_branch THEN dev_wallets ELSE wallets
      cursor == IF dev_branch THEN dev_wallet_index ELSE wallet_index
      idx == FirstWithWork(pool, cursor)
      pos == (cursor + idx) % Len(pool)
  IN IF idx >= 0
     THEN [wallet |-> pool[pos + 1],
           challenge |-> get_unsolved_challenge_for_wallet(pool[pos + 1]),
           db |-> db_wallets, wallets |-> wallets, dev_wallets |-> dev_wallets,
           wallet_index |-> IF dev_branch THEN wallet_index ELSE pos,
           dev_wallet_index |-> IF dev_branch THEN (pos + 1) % Len(pool) ELSE dev_wallet_index,
           raised |-> FALSE]
     ELSE IF use_dev_wallet THEN GrowDevPool(cur, made)
     ELSE GrowUserPool(cur, made, dev_made)

\* the loop, had it stopped one entry late
Full_late(batch_contexts, workers) == Len(batch_contexts) > workers

\* miner_manager.py:262-263  if len(batch_contexts) >= max_workers: break
Full(batch_contexts, workers) == Len(batch_contexts) >= workers

RECURSIVE ExtendBatchUpTo(_, _, _, _, _, _, _)
\* miner_manager.py:259-277  further pairs of the same pool with the same ROM key,
\* for a configured worker count
ExtendBatchUpTo(workers, candidate_wallets, i, batch_contexts, selected, rom_key, use_dev_wallet) ==
  IF i > Len(candidate_wallets) \/ Full(batch_contexts, workers) THEN batch_contexts
  ELSE LET wallet == candidate_wallets[i]
           unsolved == get_unsolved_challenge_for_wallet(wallet)
       IN IF \/ wallet = selected
             \/ unsolved = NoChallenge
             \/ unsolved.no_pre_mine # rom_key
          THEN ExtendBatchUpTo(workers, candidate_wallets, i + 1, batch_contexts, selected,
                               rom_key, use_dev_wallet)
          ELSE ExtendBatchUpTo(workers, candidate_wallets, i + 1,
                               Append(batch_contexts,
                                      [wallet |-> wallet, challenge |-> unsolved,
                                       is_dev_solution |-> use_dev_wallet]),
                               selected, rom_key, use_dev_wallet)

\* miner_manager.py:259-277  under the explored configuration
ExtendBatch(candidate_wallets, i, batch_contexts, selected, rom_key, use_dev_wallet) ==
  ExtendBatchUpTo(max_workers, candidate_wallets, i, batch_contexts, selected, rom_key,
                  use_dev_wallet)

\* miner_manager.py:253-277  the batch of a cycle; sel is the cycle's selection
BatchContextsFor(workers, sel, use_dev_wallet) ==
  LET first == <<[wallet |-> sel.wallet, challenge |-> sel.challenge,
                  is_dev_solution |-> use_dev_wallet]>>
  IN IF workers > 1
     THEN ExtendBatchUpTo(workers, IF use_dev_wallet THEN sel.dev_wallets ELSE sel.wallets,
                          1, first, sel.wallet, sel.challenge.no_pre_mine, use_dev_wallet)
     ELSE first

\* miner_manager.py:253-277  under the explored configuration
BatchContexts(sel, use_dev_wallet) == BatchContextsFor(max_workers, sel, use_dev_wallet)

\* miner_manager.py:283-286  int(difficulty_str.ljust(8, '0')[:8], 16); -1 stands for "raises"
DispatchDifficulty(d) ==
  LET diff_str == IF Len(d) >= DIFF_PREFIX THEN d
                  ELSE d \o [i \in 1..(DIFF_PREFIX - Len(d)) |-> 0]
  IN IF IsHex(Prefix(diff_str, DIFF_PREFIX)) THEN HexValue(Prefix(diff_str, DIFF_PREFIX))
     ELSE -1

\* the counters, had every wallet of the batch been given one
WithCounters_all(counters, batch) ==
  LET fresh == {batch[i].wallet : i \in 1..Len(batch)}
  IN [a \in (DOMAIN counters) \cup fresh |-> IF a \in DOMAIN counters THEN counters[a] ELSE 0]

\* the request counter, had it not been advanced
NextRequestId_same(id) == id

\* miner_manager.py:311  req_id += 1
NextRequestId(id) == id + 1

\* miner_manager.py:305-309  user wallets of the batch get a per-wallet counter
WithCounters(counters, batch) ==
  LET fresh == {batch[i].wallet : i \in {j \in 1..Len(batch) : ~batch[j].is_dev_solution}}
  IN [a \in (DOMAIN counters) \cup fresh |-> IF a \in DOMAIN counters THEN counters[a] ELSE 0]

\* the test, had the ROM key not been looked at
Dispatches_anyRom(sel, batch) ==
  /\ ~sel.raised
  /\ \A i \in 1..Len(batch) : DispatchDifficulty(batch[i].challenge.difficulty) # -1

\* Whether the cycle with selection sel reaches gpu_queue.put: it does not when
\* the selection raised, when the challenge has no ROM key (miner_manager.py:247-251)
\* or when a difficulty of the batch does not parse (line 286 raises)
Dispatches(sel, batch) ==
  /\ ~sel.raised
  /\ sel.challenge.no_pre_mine # NoRom
  /\ \A i \in 1..Len(batch) : DispatchDifficulty(batch[i].challenge.difficulty) # -1

\* miner_manager.py:154-319  a cycle that sends a batch to the compute worker
CycleDispatchWith(workers) ==
  /\ sched_pc = "cycle"
  /\ latest_challenge # NoChallenge
  /\ req_id < MaxRequests
  /\ \E use_dev_wallet \in BOOLEAN, made \in 0..1, dev_made \in 0..dev_wallet_floor :
       LET sel == Select(use_dev_wallet, made, dev_made)
           batch == BatchContextsFor(workers, sel, use_dev_wallet)
       IN /\ Dispatches(sel, batch)
          /\ db_wallets' = sel.db
          /\ wallets' = sel.wallets
          /\ dev_wallets' = sel.dev_wallets
          /\ wallet_index' = sel.wallet_index
          /\ dev_wallet_index' = sel.dev_wallet_index
          /\ batch_metadata' = batch
          /\ wallet_session_solutions' = WithCounters(wallet_session_solutions, batch)
          /\ req_id' = NextRequestId(req_id)
          /\ gpu_queue' = Append(gpu_queue,
                                 [id |-> NextRequestId(req_id), type |-> "mine",
                                  rom_key |-> sel.challenge.no_pre_mine,
                                  tasks |-> [i \in 1..Len(batch) |->
                                     DispatchDifficulty(batch[i].challenge.difficulty)]])
  /\ sched_pc' = "wait"
  /\ UNCHANGED <<pollVars, db_challenges, wallet_challenges, solutions, session_solutions,
                 dev_session_solutions, gpu_response_queue, pipeVars, remoteVars, returned, lifeVars,
                 current_hashrate>>

\* miner_manager.py:154-319  under the explored configuration
CycleDispatch == CycleDispatchWith(max_workers)

\* miner_manager.py:154-251, 415-417  a cycle that ends before gpu_queue.put: no ROM
\* key, or an exception caught by the loop; what it assigned before stays assigned
CycleSkipWith(workers) ==
  /\ sched_pc = "cycle"
  /\ latest_challenge # NoChallenge
  /\ \E use_dev_wallet \in BOOLEAN, made \in 0..1, dev_made \in 0..dev_wallet_floor :
       LET sel == Select(use_dev_wallet, made, dev_made)
       IN /\ ~Dispatches(sel, IF sel.raised THEN <<>>
                               ELSE BatchContextsFor(workers, sel, use_dev_wallet))
          /\ db_wallets' = sel.db
          /\ wallets' = sel.wallets
          /\ dev_wallets' = sel.dev_wallets
          /\ wallet_index' = sel.wallet_index
          /\ dev_wallet_index' = sel.dev_wallet_index
  /\ UNCHANGED <<pollVars, db_challenges, wallet_challenges, solutions, sched_pc, req_id,
                 batch_metadata, session_solutions, dev_session_solutions,
                 wallet_session_solutions, gpuVars, pipeVars, remoteVars, returned, lifeVars,
                 current_hashrate>>

\* miner_manager.py:154-251, 415-417  under the explored configuration
CycleSkip == CycleSkipWith(max_workers)

(***************************************************************************)
(* The compute worker, as the scheduler's response queue sees it           *)
(***************************************************************************)
TaskResults == {[found |-> FALSE, nonce |-> NoNonce]}
               \cup {[found |-> TRUE, nonce |-> n] : n \in Nonces \cup {NoNonce}}

Reported(results) == Cardinality({i \in DOMAIN results :
                                    results[i].found /\ results[i].nonce # NoNonce})

\* response.get('hashes') / response.get('duration') of a response without them
NoSample == [hashes |-> 0, duration |-> 0]

\* engine.py:226-241  the answers to one mine request: an error (request_id and
\* error only), the single-task shape (found/nonce at top level), or one with a
\* task_results list of up to one entry per task; a completed answer carries the
\* hash count and the duration of the launch
Answers(req, samples) ==
  {[request_id |-> req.id, error |-> TRUE, task_results |-> <<>>, found |-> FALSE,
    nonce |-> NoNonce, hashes |-> NoSample.hashes, duration |-> NoSample.duration]}
  \cup {[request_id |-> req.id, error |-> FALSE, task_results |-> <<>>, found |-> r.found,
         nonce |-> r.nonce, hashes |-> m.hashes, duration |-> m.duration] :
          r \in TaskResults, m \in samples}
  \cup {[request_id |-> req.id, error |-> FALSE, task_results |-> tr, found |-> FALSE,
         nonce |-> NoNonce, hashes |-> m.hashes, duration |-> m.duration] :
          tr \in UNION {[1..k -> TaskResults] : k \in 1..Len(req.tasks)}, m \in samples}

\* the answers whose figures the scheduler does not use
Responses(req) == Answers(req, {NoSample})

\* engine.py:125-140  the worker takes the next request and answers it
GpuAnswer(samples) ==
  /\ gpu_queue # <<>>
  /\ Head(gpu_queue).type = "mine"
  /\ \E response \in Answers(Head(gpu_queue), samples) :
       /\ Reported(response.task_results) + (IF response.found /\ response.nonce # NoNonce
                                             THEN 1 ELSE 0)
            <= MaxSolutions - Len(solutions)
       /\ gpu_response_queue' = Append(gpu_response_queue, response)
  /\ gpu_queue' = Tail(gpu_queue)
  /\ UNCHANGED <<pollVars, dbVars, schedVars, pipeVars, remoteVars, returned, lifeVars,
                 current_hashrate>>

GpuRespond == GpuAnswer({NoSample})

(***************************************************************************)
(* Submission: the enqueue, and what the scheduler does with a response    *)
(***************************************************************************)
RECURSIVE ToHex(_, _)
\* miner_manager.py:357  f"{nonce_int:016x}": the last `width` hex digits
ToHex(n, width) == IF width = 0 THEN <<>> ELSE Append(ToHex(n \div 16, width - 1), n % 16)
NONCE_HEX_WIDTH == 16

\* submit, had it counted the enqueue as a first attempt
submit_counted(q, wallet_address, challenge_id, nonce) ==
  Append(q, [wallet_address |-> wallet_address, challenge_id |-> challenge_id,
             nonce |-> nonce, age |-> 0, attempts |-> 1, elapsed |-> 0, since_fail |-> -1,
             burst |-> 0])

\* networking.py:37-47  SolutionSubmissionQueue.submit.  age is now - created_at;
\* elapsed (time since the enqueue) and since_fail (time since the last transient
\* failure, -1 before the first) are not fields of the code's dict: they record
\* what the item has been through
submit(q, wallet_address, challenge_id, nonce) ==
  Append(q, [wallet_address |-> wallet_address, challenge_id |-> challenge_id,
             nonce |-> nonce, age |-> 0, attempts |-> 0, elapsed |-> 0, since_fail |-> -1,
             burst |-> 0])

\* networking.py:241-257  APIClient.submit_solution: queues and answers (True, False)
submit_solution(q, wallet_address, challenge_id, nonce) ==
  [queue |-> submit(q, wallet_address, challenge_id, nonce), success |-> TRUE,
   is_fatal |-> FALSE]

\* database.py:177-188  get_total_solutions(): accepted solutions not stored as
\* fee solutions
get_total_solutions(rows) ==
  Cardinality({i \in 1..Len(rows) : rows[i].status = "accepted" /\ ~rows[i].is_dev_solution})

\* database.py:190-200  INSERT OR IGNORE INTO wallet_challenges
mark_challenge_solved(solved, wallet_address, challenge_id) ==
  solved \cup {<<wallet_address, challenge_id>>}

\* database.py:156-175  add_solution followed by update_solution_status, which
\* sets the status of every row with that challenge_id and nonce
add_solution(rows, challenge_id, nonce, address, is_dev_solution, status) ==
  LET added == Append(rows, [challenge_id |-> challenge_id, nonce |-> nonce,
                             address |-> address, status |-> "pending",
                             is_dev_solution |-> is_dev_solution])
  IN [i \in 1..Len(added) |->
        IF added[i].challenge_id = challenge_id /\ added[i].nonce = nonce
        THEN [added[i] EXCEPT !.status = status] ELSE added[i]]

\* the results, had the padding been put in front of what the response carries
NormaliseResults_front(response, n) ==
  LET given == IF response.task_results # <<>> THEN response.task_results
               ELSE <<[found |-> response.found, nonce |-> response.nonce]>>
  IN IF Len(given) < n
     THEN [i \in 1..(n - Len(given)) |-> [found |-> FALSE, nonce |-> NoNonce]] \o given
     ELSE given

\* miner_manager.py:338-347  the results the scheduler reads from a response,
\* one per task of the batch
NormaliseResults(response, n) ==
  LET given == IF response.task_results # <<>> THEN response.task_results
               ELSE <<[found |-> response.found, nonce |-> response.nonce]>>
  IN IF Len(given) < n
     THEN given \o [i \in 1..(n - Len(given)) |-> [found |-> FALSE, nonce |-> NoNonce]]
     ELSE given

\* the loop body, had it not looked for a missing nonce
ApplyResult_unchecked(st, meta, result) ==
  IF ~result.found THEN st
  ELSE LET challenge_id == meta.challenge.challenge_id
           nonce_hex == ToHex(result.nonce, NONCE_HEX_WIDTH)
       IN [st EXCEPT
             !.queue = submit_solution(st.queue, meta.wallet, challenge_id, nonce_hex).queue,
             !.wallet_challenges = mark_challenge_solved(st.wallet_challenges, meta.wallet,
                                                         challenge_id),
             !.session_solutions = IF result.nonce = NoNonce THEN @ ELSE @ + 1]

\* miner_manager.py:349-402  one (meta, result) of the zip; st holds what the loop
\* body writes
ApplyResult(st, meta, result) ==
  IF ~result.found \/ result.nonce = NoNonce THEN st
  ELSE LET wallet_addr == meta.wallet
           challenge_id == meta.challenge.challenge_id
           nonce_hex == ToHex(result.nonce, NONCE_HEX_WIDTH)
           sent == submit_solution(st.queue, wallet_addr, challenge_id, nonce_hex)
       IN IF sent.success
          THEN [queue |-> sent.queue,
                wallet_challenges |-> mark_challenge_solved(st.wallet_challenges,
                                                            wallet_addr, challenge_id),
                solutions |-> add_solution(st.solutions, challenge_id, nonce_hex,
                                           wallet_addr, meta.is_dev_solution, "accepted"),
                session_solutions |-> IF meta.is_dev_solution THEN st.session_solutions
                                      ELSE st.session_solutions + 1,
                dev_session_solutions |-> IF meta.is_dev_solution
                                          THEN st.dev_session_solutions + 1
                                          ELSE st.dev_session_solutions,
                wallet_session_solutions |->
                  IF meta.is_dev_solution THEN st.wallet_session_solutions
                  ELSE [st.wallet_session_solutions EXCEPT ![wallet_addr] = @ + 1]]
          ELSE IF sent.is_fatal
          THEN [st EXCEPT !.queue = sent.queue,
                          !.wallet_challenges = mark_challenge_solved(st.wallet_challenges,
                                                                      wallet_addr, challenge_id),
                          !.solutions = add_solution(st.solutions, challenge_id, nonce_hex,
                                                     wallet_addr, meta.is_dev_solution,
                                                     "rejected")]
          ELSE [st EXCEPT !.queue = sent.queue]

RECURSIVE ApplyResults(_, _, _, _)
\* miner_manager.py:349  for meta, result in zip(current_batch_metadata, task_results)
ApplyResults(st, batch, results, i) ==
  IF i > Len(batch) \/ i > Len(results) THEN st
  ELSE ApplyResults(ApplyResult(st, batch[i], results[i]), batch, results, i + 1)

RECURSIVE Pow10(_)
Pow10(n) == IF n = 0 THEN 1 ELSE 10 * Pow10(n - 1)
\* the rate is held as a whole number of 1/RateScale hashes per second, which is
\* exact for the figures below over as many samples as there are requests
RateScale == Pow10(MaxRequests)

\* the update, had the weights of the old figure and the new sample been exchanged
UpdateHashrate_swapped(cur, response) ==
  IF response.hashes # 0 /\ response.duration # 0 /\ response.duration > 0
  THEN LET instant_hashrate == (response.hashes * RateScale) \div response.duration
       IN [rate |-> IF cur.rate = 0 THEN instant_hashrate
                    ELSE (1 * cur.rate + 9 * instant_hashrate) \div 10,
           samples |-> cur.samples + 1]
  ELSE cur

\* miner_manager.py:404-413  the hashrate estimate after a response
UpdateHashrate(cur, response) ==
  IF response.hashes # 0 /\ response.duration # 0 /\ response.duration > 0
  THEN LET instant_hashrate == (response.hashes * RateScale) \div response.duration
       IN [rate |-> IF cur.rate = 0 THEN instant_hashrate
                    ELSE (9 * cur.rate + 1 * instant_hashrate) \div 10,
           samples |-> cur.samples + 1]
  ELSE cur

\* miner_manager.py:322-413  the response to the batch in flight is consumed
ProcessResponse ==
  /\ sched_pc = "wait"
  /\ gpu_response_queue # <<>>
  /\ LET response == Head(gpu_response_queue)
         st0 == [queue |-> queue, wallet_challenges |-> wallet_challenges,
                 solutions |-> solutions, session_solutions |-> session_solutions,
                 dev_session_solutions |-> dev_session_solutions,
                 wallet_session_solutions |-> wallet_session_solutions]
         st == IF response.error THEN st0
               ELSE ApplyResults(st0, batch_metadata,
                                 NormaliseResults(response, Len(batch_metadata)), 1)
     IN /\ queue' = st.queue
        /\ wallet_challenges' = st.wallet_challenges
        /\ solutions' = st.solutions
        /\ session_solutions' = st.session_solutions
        /\ dev_session_solutions' = st.dev_session_solutions
        /\ wallet_session_solutions' = st.wallet_session_solutions
  /\ gpu_response_queue' = Tail(gpu_response_queue)
  /\ current_hashrate' = UpdateHashrate(current_hashrate, Head(gpu_response_queue))
  /\ batch_metadata' = <<>>
  /\ sched_pc' = "cycle"
  /\ UNCHANGED <<pollVars, db_challenges, db_wallets, wallets, dev_wallets, wallet_index,
                 dev_wallet_index, req_id, gpu_queue, retry_queue, remoteVars, returned,
                 lifeVars>>

(***************************************************************************)
(* SolutionSubmissionQueue._process_queue                                  *)
(***************************************************************************)
\* networking.py:68  age > timedelta(hours=self.retry_hours)
Expired(item) == item.age > RetentionHorizon

\* networking.py:101  created_at = datetime.now() - age + timedelta(seconds=retry_delay):
\* the age the item has right after the assignment
Deferred(age) == age - retry_delay

\* the item, had the attempt not been counted
Attempted_uncounted(item) == [item EXCEPT !.burst = @ + 1]

\* networking.py:76  submission['attempts'] += 1 (counted up to MaxAttempts)
Attempted(item) == [item EXCEPT !.attempts = Min(@ + 1, MaxAttempts), !.burst = @ + 1]

\* networking.py:64-102  one item of the retry list; acc.still is still_retrying,
\* the rest of acc is what the remote service has seen
ProcessItem(acc, item, outcome) ==
  IF Expired(item) THEN acc
  ELSE LET pair == <<item.wallet_address, item.challenge_id>>
           seen == [acc EXCEPT
                      !.flags = @ \cup {k \in {"overdue", "early"} :
                                     \/ k = "overdue" /\ item.elapsed > RetentionHorizon
                                     \/ k = "early" /\ item.since_fail >= 0
                                                   /\ item.since_fail < retry_delay},
                      !.late = @ \cup {<<pair[1], pair[2], k>> : k \in
                                  {k \in {"accepted", "fatal"} :
                                     \/ k = "accepted" /\ pair \in acc.accepted
                                     \/ k = "fatal" /\ pair \in acc.rejected}}]
       IN IF outcome = "accepted" THEN [seen EXCEPT !.accepted = @ \cup {pair}]
          ELSE IF outcome = "fatal" THEN [seen EXCEPT !.rejected = @ \cup {pair}]
          ELSE [seen EXCEPT !.still =
                  Append(@, [Attempted(item) EXCEPT !.age = Deferred(item.age),
                                                    !.since_fail = 0])]

RECURSIVE ProcessRetryQueue(_, _, _, _)
\* networking.py:63-104  for submission in retry_queue
ProcessRetryQueue(acc, rq, outcomes, i) ==
  IF i > Len(rq) THEN acc
  ELSE ProcessRetryQueue(ProcessItem(acc, rq[i], outcomes[i]), rq, outcomes, i + 1)

\* networking.py:53-107  one pass of the loop: at most one new submission is
\* taken from the queue, then every item of the retry list is handled; outcomes
\* are the answers of the remote service to the calls of the pass
PassWith(max_burst, outcomes) ==
  LET rq == IF queue # <<>> THEN Append(retry_queue, Head(queue)) ELSE retry_queue
  IN /\ \A i \in 1..Len(rq) :
          Expired(rq[i]) \/ (Deferred(rq[i].age) >= AgeFloor /\ rq[i].burst < max_burst)
     /\ outcomes \in [1..Len(rq) -> Outcomes]
     /\ LET acc == ProcessRetryQueue([still |-> <<>>, accepted |-> remote_accepted,
                                      rejected |-> remote_rejected, late |-> late_calls,
                                      flags |-> call_flags], rq, outcomes, 1)
        IN /\ retry_queue' = acc.still
           /\ remote_accepted' = acc.accepted
           /\ remote_rejected' = acc.rejected
           /\ late_calls' = acc.late
           /\ call_flags' = acc.flags
     /\ queue' = IF queue # <<>> THEN Tail(queue) ELSE queue
     /\ UNCHANGED <<pollVars, dbVars, schedVars, gpuVars, lifeVars, current_hashrate>>

\* the answers the remote service may give to the calls of a pass over n items
PassOutcomes(n) == [1..n -> Outcomes]

\* networking.py:53-107  one pass of the loop
ProcessQueuePass(max_burst) ==
  /\ \E outcomes \in PassOutcomes(Len(retry_queue) + (IF queue # <<>> THEN 1 ELSE 0)) :
       PassWith(max_burst, outcomes)
  /\ UNCHANGED returned

(***************************************************************************)
(* Specifications                                                          *)
(***************************************************************************)
\* The whole system; the clock moves in half days.
Next ==
  \/ PollFetch
  \/ PollRegister
  \/ Provision
  \/ CycleDispatch
  \/ CycleSkip
  \/ GpuRespond
  \/ ProcessResponse
  \/ ProcessQueuePass(1)
  \/ Tick(HalfDay)

Spec == Init /\ [][Next]_vars

\* --- The submission pipeline on its own: callers enqueue through
\* APIClient.submit_solution, the loop makes its passes, time passes.
PipePairs == {<<w, "c1">> : w \in 1..MaxPending}

PendingFor(pair, items) ==
  \E i \in 1..Len(items) : <<items[i].wallet_address, items[i].challenge_id>> = pair

\* networking.py:241-257  a caller submits a nonce for a pair that has nothing pending
EnqueueFor(pairs) ==
  /\ \E pair \in pairs, n \in Nonces :
       /\ ~PendingFor(pair, queue \o retry_queue)
       /\ queue' = submit_solution(queue, pair[1], pair[2], ToHex(n, NONCE_HEX_WIDTH)).queue
  /\ UNCHANGED <<pollVars, dbVars, schedVars, gpuVars, retry_queue, remoteVars, returned, lifeVars,
                 current_hashrate>>

Enqueue == EnqueueFor(PipePairs)

\* the retry interval passes after a transient failure
RetryWait ==
  /\ \E i \in 1..Len(retry_queue) :
       retry_queue[i].since_fail >= 0 /\ retry_queue[i].since_fail < retry_delay
  /\ Tick(retry_delay)

NextPipe ==
  \/ Enqueue
  \/ ProcessQueuePass(MaxBurst)
  \/ RetryWait
  \/ Tick(HalfDay)

SpecPipe == Init /\ [][NextPipe]_vars

\* The pipeline thread keeps making passes (networking.py:53, while self.running)
\* and time keeps advancing.
FairSpecPipe ==
  /\ Init /\ [][NextPipe]_vars
  /\ WF_vars(ProcessQueuePass(MaxBurst))
  /\ WF_vars(RetryWait \/ Tick(HalfDay))

\* --- The best-unsolved query on its own: any content of the challenges and
\* wallet_challenges tables, and a caller asking for a wallet.
QueryWallets == {1, 2}
QueryIds == [i \in 1..MaxRows |-> <<"c1", "c2", "c3", "c4">>[i]]
QueryDeadlines == {Missing, Unparseable, Naive, Aware(SAFETY_MARGIN), Aware(SAFETY_MARGIN + 1),
                   Aware(HalfDay)}
QueryDifficulties == {D10, D20, DBad}
QueryRoms == {"r1"}

QueryTables ==
  UNION {[1..n -> [difficulty : QueryDifficulties, no_pre_mine : QueryRoms,
                   latest_submission : QueryDeadlines]] : n \in 0..MaxRows}

\* the state in which the query is called, for the contents of the challenges
\* table drawn from tables
QueryStart(tables) ==
  /\ \E t \in tables :
       db_challenges = [i \in 1..Len(t) |->
                          Challenge(QueryIds[i], t[i].difficulty, t[i].no_pre_mine,
                                    t[i].latest_submission)]
  /\ wallet_challenges \in SUBSET (QueryWallets \X {QueryIds[i] : i \in 1..MaxRows})
  /\ latest_challenge = NoChallenge
  /\ poller_pc = "fetch"
  /\ db_wallets = [i \in 1..Cardinality(QueryWallets) |-> [address |-> i, is_dev_wallet |-> FALSE]]
  /\ solutions = <<>>
  /\ sched_pc = "start"
  /\ wallets = <<>>
  /\ dev_wallets = <<>>
  /\ wallet_index = 0
  /\ dev_wallet_index = 0
  /\ req_id = 0
  /\ batch_metadata = <<>>
  /\ session_solutions = 0
  /\ dev_session_solutions = 0
  /\ wallet_session_solutions = <<>>
  /\ gpu_queue = <<>>
  /\ gpu_response_queue = <<>>
  /\ queue = <<>>
  /\ retry_queue = <<>>
  /\ remote_accepted = {}
  /\ remote_rejected = {}
  /\ late_calls = {}
  /\ call_flags = {}
  /\ returned = NotAsked
  /\ Started
  /\ current_hashrate = NoHashrate

InitQuery == QueryStart(QueryTables)

\* database.py:254-322  a call of get_unsolved_challenge_for_wallet
Query ==
  /\ \E w \in QueryWallets :
       returned' = [asked |-> TRUE, wallet |-> w,
                    challenge |-> get_unsolved_challenge_for_wallet(w)]
  /\ UNCHANGED <<pollVars, dbVars, schedVars, gpuVars, pipeVars, remoteVars, lifeVars,
                 current_hashrate>>

NextQuery == Query

SpecQuery == InitQuery /\ [][NextQuery]_vars

(***************************************************************************)
(* Properties of the whole system (under Spec)                             *)
(***************************************************************************)
BatchPairs == {<<batch_metadata[i].wallet, batch_metadata[i].challenge.challenge_id>> :
                 i \in 1..Len(batch_metadata)}

\* C1: once a solve record exists for a pair (w, c), no later cycle places (w, c)
\* in a dispatched batch, whether the pair was chosen by the best-unsolved query or
\* by the pairing of the last wallet of the pool with the polled challenge.
\* (Solve records are written only when a response is consumed, so the records of
\* a state with a batch in flight are those that existed at its dispatch.)
C1_SolvedPairNotDispatched ==
  sched_pc = "wait" => BatchPairs \cap wallet_challenges = {}

\* C2: a solve record for (w, c) is written only after a submission for (w, c)
\* has been accepted or fatally rejected by the remote service.
C2_RecordOnlyAfterTerminalOutcome ==
  wallet_challenges \subseteq (remote_accepted \cup remote_rejected)

\* C6: once the remote service has accepted a submission for (w, c), no further
\* submission call for (w, c) is made.
C6_NoCallAfterAcceptance ==
  \A call \in late_calls : call[3] # "accepted"

\* C7: submit_solution / submit only appends pending submissions with attempts = 0
\* to the in-memory queue: the step that enqueues leaves what is already queued,
\* the retry list and everything the remote service has seen as they were, and
\* the scheduler is in its next cycle right after it.
C7_EnqueueOnly ==
  [][Len(queue') > Len(queue) =>
       /\ SubSeq(queue', 1, Len(queue)) = queue
       /\ \A i \in (Len(queue) + 1)..Len(queue') :
            /\ queue'[i].attempts = 0
            /\ queue'[i].age = 0
            /\ <<queue'[i].wallet_address, queue'[i].challenge_id>> \in BatchPairs
       /\ UNCHANGED <<retry_queue, remoteVars>>
       /\ sched_pc = "wait" /\ sched_pc' = "cycle"]_vars

\* C7 witness: a nonce has been found and enqueued, the remote service has not
\* been called, and the scheduler is in its next cycle
C7_Enqueued ==
  /\ sched_pc = "cycle"
  /\ \E i \in 1..Len(queue) : queue[i].attempts = 0 /\ queue[i].elapsed = 0
  /\ retry_queue = <<>>
  /\ remote_accepted \cup remote_rejected = {}

\* C8: after a fatal response (400/409) for (w, c) a solve record for (w, c)
\* exists, and no further submission call for (w, c) is made.
C8_FatalRetiresPair ==
  \A pair \in remote_rejected :
    /\ pair \in wallet_challenges
    /\ <<pair[1], pair[2], "fatal">> \notin late_calls

\* C10: no dispatched batch contains a challenge whose remaining time to its
\* deadline was at or below the safety margin when it was selected.  (An entry of
\* batch_metadata keeps the challenge as it was at selection.)
C10_BatchWithinMargin ==
  sched_pc = "wait" =>
    \A i \in 1..Len(batch_metadata) :
      /\ batch_metadata[i].challenge.latest_submission.kind = "aware"
      /\ batch_metadata[i].challenge.latest_submission.left > SAFETY_MARGIN

(***************************************************************************)
(* Properties of the submission pipeline (under SpecPipe, FairSpecPipe)    *)
(***************************************************************************)
\* C3: a pending submission whose every attempt fails transiently is dropped once
\* the time elapsed since its creation exceeds the retention horizon: the pipeline
\* makes no call for an item that was enqueued more than 24 h ago.
C3_DroppedPastHorizon ==
  "overdue" \notin call_flags

\* C4: after an attempt fails transiently at time t, the pipeline makes no further
\* call for that item before t + 300 s.
C4_NoCallWithinRetryInterval ==
  "early" \notin call_flags

\* C5: no pending submission is retried forever: while the pipeline keeps running
\* and time advances, every item in the retry list eventually leaves it.
C5_EveryItemLeaves ==
  \A pair \in PipePairs :
    PendingFor(pair, retry_queue) ~> ~PendingFor(pair, retry_queue)

(***************************************************************************)
(* Properties of the best-unsolved query (under SpecQuery)                 *)
(***************************************************************************)
Qualifies(row, w) ==
  /\ row.latest_submission.kind = "aware"
  /\ row.latest_submission.left > SAFETY_MARGIN
  /\ <<w, row.challenge_id>> \notin wallet_challenges

\* C9: get_unsolved_challenge_for_wallet(w) never returns a challenge with 120 s or
\* less to its deadline, with a missing or unparseable deadline, or with a solve
\* record for w; what it returns is a registered challenge, and it returns nothing
\* when no registered challenge qualifies.
C9_QueryReturnsOnlyEligible ==
  returned.asked =>
    /\ returned.challenge # NoChallenge =>
         /\ \E i \in 1..Len(db_challenges) : db_challenges[i] = returned.challenge
         /\ returned.challenge.latest_submission.kind \notin {"missing", "bad"}
         /\ returned.challenge.latest_submission.left > SAFETY_MARGIN
         /\ <<returned.wallet, returned.challenge.challenge_id>> \notin wallet_challenges
    /\ (\A i \in 1..Len(db_challenges) : ~Qualifies(db_challenges[i], returned.wallet))
         => returned.challenge = NoChallenge

\* C9 witness: the query has passed over a challenge exactly at the margin, or one
\* the wallet has a solve record for, and returned another one
C9_ReturnedPastIneligible ==
  /\ returned.asked
  /\ returned.challenge # NoChallenge
  /\ \E i \in 1..Len(db_challenges) :
       /\ db_challenges[i] # returned.challenge
       /\ \/ db_challenges[i].latest_submission = Aware(SAFETY_MARGIN)
          \/ <<returned.wallet, db_challenges[i].challenge_id>> \in wallet_challenges

\* the difficulty value the query compares (database.py:294)
DiffValue(row) == QueryDifficulty(row.difficulty)

\* an eligible challenge for w: no solve record, more than the margin left, and a
\* difficulty that has a value
Eligible(row, w) == Qualifies(row, w) /\ DiffValue(row) # -1

\* C11: whenever some registered challenge is eligible for the wallet, the query
\* returns an eligible challenge of minimal difficulty value and, among those of
\* minimal difficulty, of earliest deadline; so the result is the same for every
\* order of the rows, except between challenges equal in both.
C11_EasiestThenEarliest ==
  returned.asked =>
    LET eligible == {i \in 1..Len(db_challenges) : Eligible(db_challenges[i], returned.wallet)}
        best == returned.challenge
    IN eligible # {} =>
         /\ \E i \in eligible : db_challenges[i] = best
         /\ \A j \in eligible : DiffValue(best) <= DiffValue(db_challenges[j])
         /\ \A j \in eligible :
              DiffValue(db_challenges[j]) = DiffValue(best)
                => best.latest_submission.left <= db_challenges[j].latest_submission.left

(***************************************************************************)
(* Counters, responses and request ids (under Spec)                        *)
(***************************************************************************)
\* the wallet with address a is stored as a fee-pool wallet in table dbw
IsFeeWallet(dbw, a) == \E i \in 1..Len(dbw) : dbw[i].address = a /\ dbw[i].is_dev_wallet

\* the scheduler consumes the response to the batch in flight
ConsumesResponse == sched_pc = "wait" /\ sched_pc' = "cycle"

\* C12: a solution found by a fee-pool wallet leaves session_solutions,
\* wallet_session_solutions and the all-time count of the display unchanged and
\* only increments dev_session_solutions, and no fee-pool wallet address ever
\* becomes a key of wallet_session_solutions.
C12_FeeSolutionsNotUserVisible ==
  [][/\ (ConsumesResponse /\ \A i \in 1..Len(batch_metadata) :
                               IsFeeWallet(db_wallets, batch_metadata[i].wallet))
          => /\ session_solutions' = session_solutions
             /\ wallet_session_solutions' = wallet_session_solutions
             /\ get_total_solutions(solutions') = get_total_solutions(solutions)
             /\ dev_session_solutions' - dev_session_solutions
                  = Len(solutions') - Len(solutions)
     /\ \A a \in DOMAIN wallet_session_solutions' : ~IsFeeWallet(db_wallets', a)]_vars

\* C12 witness: a fee-pool wallet has found a solution and it has been counted
C12_FeeSolutionCounted ==
  /\ dev_session_solutions > 0
  /\ \E i \in 1..Len(solutions) :
       solutions[i].is_dev_solution /\ IsFeeWallet(db_wallets, solutions[i].address)

\* C13: in every dispatched batch an entry is flagged as a fee-pool solution
\* exactly when its wallet belongs to the fee pool.
C13_FlagMatchesPool ==
  sched_pc = "wait" =>
    \A i \in 1..Len(batch_metadata) :
      batch_metadata[i].is_dev_solution <=> IsFeeWallet(db_wallets, batch_metadata[i].wallet)

\* what a response carries, read position by position
GivenResults(response) ==
  IF response.task_results # <<>> THEN response.task_results
  ELSE <<[found |-> response.found, nonce |-> response.nonce]>>

\* the positions of the batch for which the response reports a nonce, in order
FoundPositions(response, n) ==
  SelectSeq([i \in 1..n |-> i],
            LAMBDA i : /\ i <= Len(GivenResults(response))
                       /\ GivenResults(response)[i].found
                       /\ GivenResults(response)[i].nonce # NoNonce)

\* C14: for a batch of n tasks and a non-error response with k results, result i
\* is the outcome of task i, tasks beyond k are not found, a response without a
\* task_results list is one result for the first task: the submissions enqueued
\* are exactly those of the positions with a reported nonce, each for the wallet
\* and challenge at its position.
C14_ResultsAlignWithTasks ==
  [][(ConsumesResponse /\ ~Head(gpu_response_queue).error) =>
       LET response == Head(gpu_response_queue)
           found == FoundPositions(response, Len(batch_metadata))
           new == SubSeq(queue', Len(queue) + 1, Len(queue'))
       IN /\ Len(new) = Len(found)
          /\ \A j \in 1..Len(found) :
               /\ new[j].wallet_address = batch_metadata[found[j]].wallet
               /\ new[j].challenge_id = batch_metadata[found[j]].challenge.challenge_id
               /\ new[j].nonce = ToHex(GivenResults(response)[found[j]].nonce, NONCE_HEX_WIDTH)]_vars

\* C14 witness: the scheduler waits on a batch of two tasks and the response at
\* the head of the channel carries one result, a found nonce
C14_ShortResponse ==
  /\ sched_pc = "wait"
  /\ Len(batch_metadata) = 2
  /\ gpu_response_queue # <<>>
  /\ ~Head(gpu_response_queue).error
  /\ Len(Head(gpu_response_queue).task_results) = 1
  /\ Head(gpu_response_queue).task_results[1].found
  /\ Head(gpu_response_queue).task_results[1].nonce # NoNonce

\* C16: a mine request is put on the request channel only when the response to
\* the previous one has been consumed, so at most one request or response is in
\* flight; its id is the previous id plus one, and the counter changes at no
\* other step.
C16_OneBatchSequentialIds ==
  [][/\ (Len(gpu_queue') > Len(gpu_queue) /\ Last(gpu_queue').type = "mine")
          => /\ sched_pc = "cycle"
             /\ gpu_queue = <<>> /\ gpu_response_queue = <<>>
             /\ Last(gpu_queue').id = req_id + 1
             /\ req_id' = req_id + 1
     /\ req_id' # req_id => Len(gpu_queue') > Len(gpu_queue)
     /\ Len(gpu_queue') + Len(gpu_response_queue') <= 1]_vars

\* C16 witness: the second request is in flight
C16_SecondRequestInFlight ==
  sched_pc = "wait" /\ req_id = 2 /\ gpu_queue # <<>> /\ Head(gpu_queue).id = 2

(***************************************************************************)
(* The hashrate estimate (under SpecRate)                                  *)
(***************************************************************************)
\* what a completed launch reports: hash counts and durations, absent ones as 0
RateSamples == {[hashes |-> h, duration |-> d] : h \in {0, 1000, 2000}, d \in {0, 1, 2}}

NextRate ==
  \/ PollFetch
  \/ PollRegister
  \/ Provision
  \/ CycleDispatch
  \/ CycleSkip
  \/ GpuAnswer(RateSamples)
  \/ ProcessResponse

SpecRate == Init /\ [][NextRate]_vars

CarriesSample(response) == ~response.error /\ response.hashes > 0 /\ response.duration > 0
Instantaneous(response) == (response.hashes * RateScale) \div response.duration

\* C15: the first response that carries positive hashes and duration sets
\* current_hashrate to hashes/duration; each later such response sets it to
\* 0.9 * previous + 0.1 * instantaneous; a response with an error, or with missing
\* or zero hashes or duration, and every step that consumes no response, leave it
\* unchanged.
C15_HashrateIsSmoothed ==
  [][IF ConsumesResponse
     THEN LET response == Head(gpu_response_queue)
          IN IF CarriesSample(response)
             THEN IF current_hashrate.samples = 0
                  THEN current_hashrate'.rate = Instantaneous(response)
                  ELSE 10 * current_hashrate'.rate
                         = 9 * current_hashrate.rate + Instantaneous(response)
             ELSE current_hashrate' = current_hashrate
     ELSE current_hashrate' = current_hashrate]_vars

\* samples of 1000 and then 2000 hashes per second have been taken: 1100
C15_SecondSampleTaken ==
  current_hashrate.samples = 2 /\ current_hashrate.rate = 1100 * RateScale

(***************************************************************************)
(* Start-up and shutdown (under SpecLife)                                  *)
(***************************************************************************)
\* calls of stop() in one run: the interrupt handler's and main()'s own, or the
\* handler's twice
MaxStops == 2
\* mine requests of a run under SpecLife
MaxLifeRequests == 1

\* Process.is_alive()
Alive(p) == p \in {"initialising", "serving", "wedged"}

\* miner_manager.py:52  {'type': 'shutdown'}
ShutdownRequest == [id |-> 0, type |-> "shutdown", rom_key |-> NoRom, tasks |-> <<>>]

schedData == <<wallets, dev_wallets, wallet_index, dev_wallet_index, req_id, batch_metadata,
               session_solutions, dev_session_solutions, wallet_session_solutions>>
workVars == <<pollVars, dbVars, schedVars, pipeVars, remoteVars, returned, current_hashrate>>

\* main.py:29, networking.py:124-125  MinerManager() is constructed; the submission
\* pipeline was started when the API client was created
InitLife ==
  /\ latest_challenge = NoChallenge
  /\ poller_pc = "idle"
  /\ db_challenges = <<>>
  /\ db_wallets = <<>>
  /\ wallet_challenges = {}
  /\ solutions = <<>>
  /\ sched_pc = "idle"
  /\ wallets = <<>>
  /\ dev_wallets = <<>>
  /\ wallet_index = 0
  /\ dev_wallet_index = 0
  /\ req_id = 0
  /\ batch_metadata = <<>>
  /\ session_solutions = 0
  /\ dev_session_solutions = 0
  /\ wallet_session_solutions = <<>>
  /\ gpu_queue = <<>>
  /\ gpu_response_queue = <<>>
  /\ queue = <<>>
  /\ retry_queue = <<>>
  /\ remote_accepted = {}
  /\ remote_rejected = {}
  /\ late_calls = {}
  /\ call_flags = {}
  /\ returned = NotAsked
  /\ running = FALSE
  /\ gpu_process = "none"
  /\ stop_calls = <<>>
  /\ stops_made = 0
  /\ worker_signals = <<>>
  /\ dashboard_pc = "idle"
  /\ queue_running = TRUE
  /\ current_hashrate = NoHashrate

\* miner_manager.py:22-43  start(): the worker process (if gpu.enabled) and the
\* three threads are started; nothing is awaited
StartUp ==
  /\ ~running
  /\ sched_pc = "idle"
  /\ stops_made = 0
  /\ running' = TRUE
  /\ \E enabled \in BOOLEAN : gpu_process' = IF enabled THEN "initialising" ELSE "none"
  /\ sched_pc' = "start"
  /\ poller_pc' = "fetch"
  /\ dashboard_pc' = "loop"
  /\ UNCHANGED <<latest_challenge, dbVars, schedData, gpuVars, pipeVars, remoteVars, returned,
                 stop_calls, stops_made, worker_signals, queue_running, current_hashrate>>

\* --- the worker process
\* engine.py:36-37  _init_cuda returns and the main loop begins
WorkerReady ==
  /\ gpu_process = "initialising"
  /\ gpu_process' = "serving"
  /\ UNCHANGED <<workVars, gpuVars, running, stop_calls, stops_made, worker_signals,
                 dashboard_pc, queue_running>>

\* engine.py:36-42  _init_cuda raises: run() logs it and the process ends
WorkerCrash ==
  /\ gpu_process = "initialising"
  /\ gpu_process' = "crashed"
  /\ UNCHANGED <<workVars, gpuVars, running, stop_calls, stops_made, worker_signals,
                 dashboard_pc, queue_running>>

\* the worker hangs in the driver (during set-up or a launch) and reads nothing more
WorkerWedge ==
  /\ gpu_process \in {"initialising", "serving"}
  /\ gpu_process' = "wedged"
  /\ UNCHANGED <<workVars, gpuVars, running, stop_calls, stops_made, worker_signals,
                 dashboard_pc, queue_running>>

\* engine.py:134-137  the worker reads the shutdown request and leaves its loop
WorkerShutdown ==
  /\ gpu_process = "serving"
  /\ gpu_queue # <<>>
  /\ Head(gpu_queue).type = "shutdown"
  /\ gpu_queue' = Tail(gpu_queue)
  /\ gpu_process' = "exited"
  /\ UNCHANGED <<workVars, gpu_response_queue, running, stop_calls, stops_made,
                 worker_signals, dashboard_pc, queue_running>>

\* Process.terminate() / Process.kill(): the signal ends the worker (a worker may
\* outlive terminate; stop() does not go on after kill until it has ended)
WorkerSignalled ==
  /\ Alive(gpu_process)
  /\ worker_signals # <<>>
  /\ Last(worker_signals).signal \in {"terminate", "kill"}
  /\ gpu_process' = "exited"
  /\ UNCHANGED <<workVars, gpuVars, running, stop_calls, stops_made, worker_signals,
                 dashboard_pc, queue_running>>

LifeGpuRespond == gpu_process = "serving" /\ GpuRespond

\* --- stop()
\* what a call of stop() does next, had it returned after terminate without a kill
StopStep_noKill(pc, alive) ==
  CASE pc = "enter" -> IF alive THEN "shutdown" ELSE "return"
    [] pc = "graceful" -> IF alive THEN "terminate" ELSE "return"
    [] pc = "terminated" -> "return"
    [] pc = "killed" -> IF alive THEN "join" ELSE "return"

\* miner_manager.py:49-68  what a call of stop() does next, by where it is and
\* whether gpu_process is set and is_alive()
StopStep(pc, alive) ==
  CASE pc = "enter" -> IF alive THEN "shutdown" ELSE "return"
    [] pc = "graceful" -> IF alive THEN "terminate" ELSE "return"
    [] pc = "terminated" -> IF alive THEN "kill" ELSE "return"
    [] pc = "killed" -> IF alive THEN "join" ELSE "return"

TopCall == stop_calls[Len(stop_calls)]
Advance(pc) == [stop_calls EXCEPT ![Len(stop_calls)].pc = pc]
Signal(sig) == Append(worker_signals, [call |-> TopCall.id, signal |-> sig])

\* main.py:32-35, 47-49  stop() is called: by the interrupt handler, which runs
\* between any two steps of the main thread and so also inside a call of stop()
\* in progress, or by main()'s finally
StopCall ==
  /\ stops_made < MaxStops
  /\ stops_made' = stops_made + 1
  /\ stop_calls' = Append(stop_calls, [id |-> stops_made + 1, pc |-> "enter"])
  /\ UNCHANGED <<workVars, gpuVars, running, gpu_process, worker_signals, dashboard_pc,
                 queue_running>>

\* miner_manager.py:46-56  the flag is cleared; a live worker is sent the shutdown
\* request.  A call that returns ends the calls it interrupted too: the handler
\* goes on to sys.exit(0), main.py:35.
StopEnter ==
  /\ stop_calls # <<>>
  /\ TopCall.pc = "enter"
  /\ running' = FALSE
  /\ IF StopStep("enter", Alive(gpu_process)) = "shutdown"
     THEN /\ gpu_queue' = Append(gpu_queue, ShutdownRequest)
          /\ worker_signals' = Signal("shutdown")
          /\ stop_calls' = Advance("graceful")
     ELSE /\ stop_calls' = <<>>
          /\ UNCHANGED <<gpu_queue, worker_signals>>
  /\ UNCHANGED <<workVars, gpu_response_queue, gpu_process, stops_made, dashboard_pc,
                 queue_running>>

\* miner_manager.py:56-62  join(timeout=3) is over; a worker still alive is terminated
StopAfterGraceful ==
  /\ stop_calls # <<>>
  /\ TopCall.pc = "graceful"
  /\ IF StopStep("graceful", Alive(gpu_process)) = "terminate"
     THEN /\ worker_signals' = Signal("terminate")
          /\ stop_calls' = Advance("terminated")
     ELSE /\ stop_calls' = <<>>
          /\ UNCHANGED worker_signals
  /\ UNCHANGED <<workVars, gpuVars, running, gpu_process, stops_made, dashboard_pc,
                 queue_running>>

\* miner_manager.py:62-67  join(timeout=1) is over; a worker still alive is killed
StopAfterTerminate ==
  /\ stop_calls # <<>>
  /\ TopCall.pc = "terminated"
  /\ IF StopStep("terminated", Alive(gpu_process)) = "kill"
     THEN /\ worker_signals' = Signal("kill")
          /\ stop_calls' = Advance("killed")
     ELSE /\ stop_calls' = <<>>
          /\ UNCHANGED worker_signals
  /\ UNCHANGED <<workVars, gpuVars, running, gpu_process, stops_made, dashboard_pc,
                 queue_running>>

\* miner_manager.py:68  join() returns once the worker has ended
StopAfterKill ==
  /\ stop_calls # <<>>
  /\ TopCall.pc = "killed"
  /\ StopStep("killed", Alive(gpu_process)) = "return"
  /\ stop_calls' = <<>>
  /\ UNCHANGED <<workVars, gpuVars, running, gpu_process, stops_made, worker_signals,
                 dashboard_pc, queue_running>>

\* --- the loops
\* miner_manager.py:73  while self.running, tested at the top of each poll
LifePollFetch == running /\ PollFetch

PollerExit ==
  /\ ~running
  /\ poller_pc = "fetch"
  /\ poller_pc' = "done"
  /\ UNCHANGED <<latest_challenge, dbVars, schedVars, gpuVars, pipeVars, remoteVars, returned,
                 lifeVars, current_hashrate>>

\* miner_manager.py:154  while self.running, tested at the top of each cycle
LifeCycleDispatch == running /\ req_id < MaxLifeRequests /\ CycleDispatch
LifeCycleSkip == running /\ CycleSkip
\* miner_manager.py:322-330  a response is taken only while self.running
LifeProcessResponse == running /\ ProcessResponse

\* miner_manager.py:154, 322-330  the scheduler leaves its loop, from the top of a
\* cycle or from the wait for a response
SchedulerExit ==
  /\ ~running
  /\ sched_pc \in {"cycle", "wait"}
  /\ sched_pc' = "done"
  /\ UNCHANGED <<pollVars, dbVars, schedData, gpuVars, pipeVars, remoteVars, returned,
                 lifeVars, current_hashrate>>

\* miner_manager.py:89  while self.running
DashboardExit ==
  /\ ~running
  /\ dashboard_pc = "loop"
  /\ dashboard_pc' = "done"
  /\ UNCHANGED <<workVars, gpuVars, running, gpu_process, stop_calls, stops_made,
                 worker_signals, queue_running>>

\* networking.py:53  while self.running, the pipeline's own flag
LifePass == queue_running /\ ProcessQueuePass(1)

\* networking.py:30-36, 319-322  APIClient.shutdown() -> SolutionSubmissionQueue.stop()
\* clears the pipeline's flag.  Nothing in the program calls it, so it is no
\* disjunct of NextLife.
ApiShutdown ==
  /\ queue_running
  /\ queue_running' = FALSE
  /\ UNCHANGED <<workVars, gpuVars, running, gpu_process, stop_calls, stops_made,
                 worker_signals, dashboard_pc>>

NextLife ==
  \/ StartUp
  \/ WorkerReady
  \/ WorkerCrash
  \/ WorkerWedge
  \/ WorkerShutdown
  \/ WorkerSignalled
  \/ LifeGpuRespond
  \/ StopCall
  \/ StopEnter
  \/ StopAfterGraceful
  \/ StopAfterTerminate
  \/ StopAfterKill
  \/ LifePollFetch
  \/ PollRegister
  \/ PollerExit
  \/ Provision
  \/ LifeCycleDispatch
  \/ LifeCycleSkip
  \/ LifeProcessResponse
  \/ SchedulerExit
  \/ DashboardExit
  \/ LifePass

SpecLife == InitLife /\ [][NextLife]_vars

\* Each thread keeps running: a poll under way is finished, the scheduler's set-up
\* is finished, and a loop whose test of self.running fails is left.
FairSpecLife ==
  /\ InitLife /\ [][NextLife]_vars
  /\ WF_vars(PollRegister)
  /\ WF_vars(PollerExit)
  /\ WF_vars(Provision)
  /\ WF_vars(SchedulerExit)
  /\ WF_vars(DashboardExit)

(***************************************************************************)
(* Properties of start-up and shutdown (under SpecLife and FairSpecLife)   *)
(***************************************************************************)
MineRequestPut == Len(gpu_queue') > Len(gpu_queue) /\ Last(gpu_queue').type = "mine"

\* C17: once a compute worker has failed to initialise (its set-up raised), the
\* scheduler puts no mine request on the channel of that worker.
C17_NoDispatchAfterFailedInit == [][~(gpu_process = "crashed" /\ MineRequestPut)]_vars

ShutdownMessages ==
  Cardinality({i \in DOMAIN worker_signals : worker_signals[i].signal = "shutdown"})

\* C18: over any number of calls of stop(), at most one shutdown message is put on
\* the request channel of the worker.
C18_OneShutdownMessage == ShutdownMessages <= 1

StopOrder == <<"shutdown", "terminate", "kill">>
SignalsOf(id) == LET ByCall(e) == e.call = id IN SelectSeq(worker_signals, ByCall)
InStopOrder ==
  \A id \in 1..stops_made :
    /\ Len(SignalsOf(id)) <= Len(StopOrder)
    /\ \A k \in 1..Len(SignalsOf(id)) : SignalsOf(id)[k].signal = StopOrder[k]
Sends(sig) ==
  Len(worker_signals') = Len(worker_signals) + 1 /\ Last(worker_signals').signal = sig
StopReturns == stop_calls # <<>> /\ stop_calls' = <<>>

\* C19: what a call of stop() sends the worker is, in this order, the shutdown
\* message, terminate, kill; terminate and kill are sent only to a worker that is
\* alive after the wait before them; and when a call of stop() returns the worker
\* process is not alive.
C19_GracefulTerminateKill ==
  [][/\ InStopOrder'
     /\ (Sends("terminate") \/ Sends("kill") => Alive(gpu_process))
     /\ (StopReturns => ~Alive(gpu_process'))]_vars

\* stop() has returned after killing a worker that never read the shutdown message
C19_KilledUnreadShutdown ==
  /\ stop_calls = <<>>
  /\ worker_signals # <<>>
  /\ Last(worker_signals).signal = "kill"
  /\ ~Alive(gpu_process)
  /\ \E i \in DOMAIN gpu_queue : gpu_queue[i].type = "shutdown"

\* stop() has cleared the flag that start() had set
Cancelled == ~running /\ stops_made > 0 /\ sched_pc # "idle"
LoopsExited ==
  /\ sched_pc = "done"
  /\ poller_pc = "done"
  /\ dashboard_pc = "done"
  /\ ~queue_running

\* C20: after stop() clears the running flag, the scheduling loop, the challenge
\* poller, the status loop and the submission-pipeline loop all eventually exit.
C20_StopCancelsEveryLoop == Cancelled ~> LoopsExited

(***************************************************************************)
(* Failures of the store during provisioning (under SpecFaults)            *)
(***************************************************************************)
\* miner_manager.py:116-127, database.py:130-143  a read of the wallets table
\* raises inside ensure_wallets, ensure_dev_wallets or
\* consolidate_existing_wallets: these calls come before the loop and its try, so
\* the exception leaves _manage_mining and the thread ends
ProvisionFails ==
  /\ sched_pc = "start"
  /\ sched_pc' = "dead"
  /\ UNCHANGED <<pollVars, dbVars, schedData, gpuVars, pipeVars, remoteVars, returned,
                 lifeVars, current_hashrate>>

\* miner_manager.py:373-374, database.py:156-166, 190-200  the process is killed
\* while the scheduler handles the found result k of a response, after
\* mark_challenge_solved has committed and before add_solution has: what is in
\* the store stays, the threads and what they held in memory are gone
CrashBetweenWrites ==
  /\ sched_pc = "wait"
  /\ gpu_response_queue # <<>>
  /\ ~Head(gpu_response_queue).error
  /\ LET results == NormaliseResults(Head(gpu_response_queue), Len(batch_metadata))
         st0 == [queue |-> queue, wallet_challenges |-> wallet_challenges,
                 solutions |-> solutions, session_solutions |-> session_solutions,
                 dev_session_solutions |-> dev_session_solutions,
                 wallet_session_solutions |-> wallet_session_solutions]
     IN \E k \in 1..Min(Len(batch_metadata), Len(results)) :
          /\ results[k].found
          /\ results[k].nonce # NoNonce
          /\ LET st == ApplyResults(st0, SubSeq(batch_metadata, 1, k - 1),
                                    SubSeq(results, 1, k - 1), 1)
             IN /\ wallet_challenges' =
                     mark_challenge_solved(st.wallet_challenges, batch_metadata[k].wallet,
                                           batch_metadata[k].challenge.challenge_id)
                /\ solutions' = st.solutions
  /\ sched_pc' = "dead"
  /\ poller_pc' = "dead"
  /\ running' = FALSE
  /\ queue_running' = FALSE
  /\ gpu_process' = "exited"
  /\ dashboard_pc' = "dead"
  /\ queue' = <<>>
  /\ retry_queue' = <<>>
  /\ gpu_queue' = <<>>
  /\ gpu_response_queue' = <<>>
  /\ UNCHANGED <<latest_challenge, db_challenges, db_wallets, schedData, remoteVars, returned,
                 stop_calls, stops_made, worker_signals, current_hashrate>>

NextFaults ==
  \/ PollFetch
  \/ PollRegister
  \/ Provision
  \/ ProvisionFails
  \/ CrashBetweenWrites
  \/ CycleDispatch
  \/ CycleSkip
  \/ GpuRespond
  \/ ProcessResponse
  \/ ProcessQueuePass(1)

SpecFaults == Init /\ [][NextFaults]_vars

\* C21: while the running flag is set, no failure of persistence, of the remote
\* service or of the compute worker ends the scheduling thread, the poller or the
\* pipeline loop; for the scheduling thread also not during wallet provisioning
\* before the first cycle.
C21_NoFailureEndsAThread ==
  running => sched_pc # "dead" /\ poller_pc # "dead" /\ queue_running

HasSolutionRow(pair) ==
  \E i \in 1..Len(solutions) :
    solutions[i].address = pair[1] /\ solutions[i].challenge_id = pair[2]

\* C22: in every reachable state, also after a crash between the two writes, each
\* retired pair (w, c) has a solution row recorded for it.
C22_RetiredPairHasSolutionRow == \A pair \in wallet_challenges : HasSolutionRow(pair)

AcceptedRows == Cardinality({i \in 1..Len(solutions) : solutions[i].status = "accepted"})

\* C23: session_solutions and the number of solution rows stored as 'accepted'
\* never exceed the number of submissions the remote service has accepted.
C23_CountsWithinRemoteAcceptances ==
  /\ session_solutions <= Cardinality(remote_accepted)
  /\ AcceptedRows <= Cardinality(remote_accepted)

(***************************************************************************)
(* Wallet creation, attempt by attempt (under SpecWallets)                 *)
(***************************************************************************)
\* calls of ensure_wallets / ensure_dev_wallets in a run, and the largest count asked
MaxCalls == 2
MaxCount == 2

\* what becomes of one generated wallet (wallet_manager.py:131-149, 190-234):
\*   "registered"  register_wallet answers True after a successful response
\*   "already"     register_wallet answers True on "already registered"
\*   "refused"     register_wallet answers False
\*   "unsaved"     registration is accepted and db.add_wallet answers False
\*   "raised"      generate_wallet or sign_terms raises
WalletOutcomes == {"registered", "already", "refused", "unsaved", "raised"}

\* the test, had a wallet been saved whatever register_wallet answered
Persists_unregistered(outcome) == outcome \in {"registered", "already", "refused"}

\* wallet_manager.py:137-139, 196-199  the wallet reaches the wallets table
Persists(outcome) == outcome \in {"registered", "already"}

RECURSIVE create_wallets(_, _, _)
\* wallet_manager.py:130-149, 189-234  the loop over the needed wallets, one attempt
\* each; log says what became of each attempt and under which address it was saved
create_wallets(dbw, outcomes, is_dev) ==
  IF outcomes = <<>> THEN [db |-> dbw, log |-> <<>>]
  ELSE LET db1 == IF Persists(Head(outcomes)) THEN AddWallets(dbw, 1, is_dev) ELSE dbw
           rest == create_wallets(db1, Tail(outcomes), is_dev)
       IN [db |-> rest.db,
           log |-> <<[outcome |-> Head(outcomes), is_dev_wallet |-> is_dev,
                      address |-> IF Persists(Head(outcomes)) THEN Len(db1) ELSE NoWallet]>>
                   \o rest.log]

NoCall == [calls |-> 0]

InitWallets ==
  /\ latest_challenge = NoChallenge
  /\ poller_pc = "fetch"
  /\ db_challenges = <<>>
  /\ db_wallets = <<>>
  /\ wallet_challenges = {}
  /\ solutions = <<>>
  /\ sched_pc = "start"
  /\ wallets = <<>>
  /\ dev_wallets = <<>>
  /\ wallet_index = 0
  /\ dev_wallet_index = 0
  /\ req_id = 0
  /\ batch_metadata = <<>>
  /\ session_solutions = 0
  /\ dev_session_solutions = 0
  /\ wallet_session_solutions = <<>>
  /\ gpu_queue = <<>>
  /\ gpu_response_queue = <<>>
  /\ queue = <<>>
  /\ retry_queue = <<>>
  /\ remote_accepted = {}
  /\ remote_rejected = {}
  /\ late_calls = {}
  /\ call_flags = {}
  /\ returned = NoCall
  /\ Started
  /\ current_hashrate = NoHashrate

\* wallet_manager.py:117-154  a call of ensure_wallets(count), with the refresh of
\* the fee pool that ends it
EnsureWalletsCall ==
  /\ returned.calls < MaxCalls
  /\ \E count \in 1..MaxCount :
       LET needed == Max(0, count - Len(get_wallets(db_wallets)))
       IN \E outcomes \in [1..needed -> WalletOutcomes] :
            LET made == create_wallets(db_wallets, outcomes, FALSE)
                result == get_wallets(made.db)
                target == Max(dev_wallet_floor, Max(1, Len(result) \div 4))
                dev_needed == Max(0, target - Len(get_dev_wallets(made.db)))
            IN \E dev_outcomes \in [1..dev_needed -> WalletOutcomes] :
                 LET dev_made == create_wallets(made.db, dev_outcomes, TRUE)
                 IN /\ db_wallets' = dev_made.db
                    /\ returned' = [calls |-> returned.calls + 1, dev |-> FALSE,
                                    count |-> count, result |-> result,
                                    log |-> made.log \o dev_made.log]
  /\ UNCHANGED <<pollVars, db_challenges, wallet_challenges, solutions, schedVars, gpuVars,
                 pipeVars, remoteVars, lifeVars, current_hashrate>>

\* wallet_manager.py:172-237  a call of ensure_dev_wallets(count)
EnsureDevWalletsCall ==
  /\ returned.calls < MaxCalls
  /\ \E count \in 1..MaxCount :
       LET needed == Max(0, count - Len(get_dev_wallets(db_wallets)))
       IN \E outcomes \in [1..needed -> WalletOutcomes] :
            LET made == create_wallets(db_wallets, outcomes, TRUE)
            IN /\ db_wallets' = made.db
               /\ returned' = [calls |-> returned.calls + 1, dev |-> TRUE,
                               count |-> count, result |-> get_dev_wallets(made.db),
                               log |-> made.log]
  /\ UNCHANGED <<pollVars, db_challenges, wallet_challenges, solutions, schedVars, gpuVars,
                 pipeVars, remoteVars, lifeVars, current_hashrate>>

NextWallets ==
  \/ EnsureWalletsCall
  \/ EnsureDevWalletsCall

SpecWallets == InitWallets /\ [][NextWallets]_vars

RemoteAccepted(e) == e.outcome \in {"registered", "already", "unsaved"}
Saved(e) == e.outcome \in {"registered", "already"}
NewRows == {db_wallets'[j] : j \in (Len(db_wallets) + 1)..Len(db_wallets')}
PoolOf(dbw, is_dev) == IF is_dev THEN get_dev_wallets(dbw) ELSE get_wallets(dbw)
AttemptsFor(log, is_dev) == Cardinality({i \in 1..Len(log) : log[i].is_dev_wallet = is_dev})

\* C24: in a call of ensure_wallets / ensure_dev_wallets, every wallet that reaches
\* persistence was accepted by the remote registration; an attempt whose
\* registration or write failed leaves no row, is not made again (one attempt per
\* needed wallet) and is not in the returned list, which is the persisted pool;
\* the attempts after a failed one are still made.
C24_OnlyRegisteredWalletsPersist ==
  [][returned'.calls > returned.calls =>
       LET log == returned'.log
           needed == Max(0, returned'.count - Len(PoolOf(db_wallets, returned'.dev)))
       IN /\ Len(db_wallets') >= Len(db_wallets)
          /\ SubSeq(db_wallets', 1, Len(db_wallets)) = db_wallets
          /\ \A row \in NewRows :
               \E i \in 1..Len(log) : /\ log[i].address = row.address
                                      /\ log[i].is_dev_wallet = row.is_dev_wallet
                                      /\ RemoteAccepted(log[i])
                                      /\ Saved(log[i])
          /\ Cardinality(NewRows) = Cardinality({i \in 1..Len(log) : Saved(log[i])})
          /\ \A i \in 1..Len(log) :
               ~(RemoteAccepted(log[i]) /\ Saved(log[i])) => log[i].address = NoWallet
          /\ AttemptsFor(log, returned'.dev) = needed
          /\ returned'.result = PoolOf(db_wallets', returned'.dev)]_vars

\* a call whose first registration was refused and whose second wallet was saved
C24_CreatedAfterRefusal ==
  /\ returned.calls > 0
  /\ Len(returned.log) >= 2
  /\ returned.log[1].outcome = "refused"
  /\ returned.log[2].outcome = "registered"
  /\ returned.log[2].address \in {db_wallets[j].address : j \in 1..Len(db_wallets)}

(***************************************************************************)
(* Further properties of the scheduler (under Spec)                        *)
(***************************************************************************)
DispatchStep == sched_pc = "cycle" /\ sched_pc' = "wait"
KnownWallet(a) == \E j \in 1..Len(db_wallets) : db_wallets[j].address = a
PoolRows(dbw, is_dev) == Len(IF is_dev THEN get_dev_wallets(dbw) ELSE get_wallets(dbw))

\* C25: when the primary wallet of a dispatched batch was not given its challenge
\* by the best-unsolved query (no wallet of the pool had eligible work), that
\* wallet was created in this cycle and has no solve records, and its pool grew
\* by exactly one wallet.
C25_ExhaustedPoolGetsFreshWallet ==
  [][DispatchStep =>
       LET first == batch_metadata'[1]
       IN get_unsolved_challenge_for_wallet(first.wallet) = NoChallenge
            => /\ ~KnownWallet(first.wallet)
               /\ \A pair \in wallet_challenges : pair[1] # first.wallet
               /\ \E is_dev \in BOOLEAN :
                    /\ IsFeeWallet(db_wallets', first.wallet) = is_dev
                    /\ PoolRows(db_wallets', is_dev) = PoolRows(db_wallets, is_dev) + 1]_vars

(***************************************************************************)
(* APIClient._request and _submit_solution_direct (under SpecRequest)      *)
(***************************************************************************)
\* the largest max_retries a caller passes
MaxTries == 3
\* networking.py:128  api.retry_delay_base
retry_delay_base == 2

\* what one HTTP attempt comes to: a response with its status, a timeout, a
\* connection error, or any other exception of session.request / response.json
HttpOutcomes ==
  {[kind |-> "response", status |-> s] : s \in {200, 400, 404, 409, 429, 500}}
  \cup {[kind |-> k, status |-> 0] : k \in {"timeout", "connection", "other"}}

RECURSIVE Power(_, _)
Power(b, n) == IF n = 0 THEN 1 ELSE b * Power(b, n - 1)

\* the pause, had it been made after the last attempt as well
PauseAfter_always(attempt, max_retries) == <<Power(retry_delay_base, attempt)>>

\* networking.py:193-197  the pause that follows a failed attempt (attempt counts
\* from 0)
PauseAfter(attempt, max_retries) ==
  IF attempt < max_retries - 1 THEN <<Power(retry_delay_base, attempt)>> ELSE <<>>

RECURSIVE request_from(_, _, _, _)
\* networking.py:153-201  the loop of _request from attempt `attempt` on
request_from(attempt, max_retries, outcomes, pauses) ==
  IF attempt >= max_retries
  THEN [result |-> "raised", error |-> "exhausted", status |-> 0, attempts |-> attempt,
        pauses |-> pauses]
  ELSE LET o == outcomes[attempt + 1]
       IN IF o.kind = "response" /\ o.status < 400
          THEN [result |-> "returned", error |-> "none", status |-> o.status,
                attempts |-> attempt + 1, pauses |-> pauses]
          ELSE IF o.kind = "response" /\ 400 <= o.status /\ o.status < 500 /\ o.status # 429
          THEN [result |-> "raised", error |-> "http", status |-> o.status,
                attempts |-> attempt + 1, pauses |-> pauses]
          ELSE request_from(attempt + 1, max_retries, outcomes,
                            pauses \o PauseAfter(attempt, max_retries))

\* networking.py:131-201  _request(method, endpoint, max_retries)
request(max_retries, outcomes) == request_from(0, max_retries, outcomes, <<>>)

\* the test, had every client error been taken as a rejection
IsFatalStatus_client(status) == 400 <= status /\ status < 500

\* networking.py:272  e.response.status_code in [400, 409]
IsFatalStatus(status) == status \in {400, 409}

\* networking.py:259-279  _submit_solution_direct: one attempt, (success, is_fatal)
submit_solution_direct(outcome) ==
  LET r == request(1, <<outcome>>)
  IN IF r.result = "returned"
     THEN [success |-> TRUE, is_fatal |-> FALSE, attempts |-> r.attempts]
     ELSE IF r.error = "http" /\ IsFatalStatus(r.status)
     THEN [success |-> FALSE, is_fatal |-> TRUE, attempts |-> r.attempts]
     ELSE [success |-> FALSE, is_fatal |-> FALSE, attempts |-> r.attempts]

\* networking.py:83-102  what the pipeline makes of the answer
DirectOutcome(answer) ==
  IF answer.success THEN "accepted" ELSE IF answer.is_fatal THEN "fatal" ELSE "transient"

\* networking.py:64-104  whether an item just queued is still in the retry list
\* after a pass in which the call was answered so
KeptAfter(answer) ==
  ProcessItem([still |-> <<>>, accepted |-> {}, rejected |-> {}, late |-> {}, flags |-> {}],
              submit(<<>>, 1, "c1", ToHex(1, NONCE_HEX_WIDTH))[1],
              DirectOutcome(answer)).still # <<>>

\* a call of _request
RequestCall ==
  /\ \E max_retries \in 0..MaxTries :
       \E outcomes \in [1..max_retries -> HttpOutcomes] :
         returned' = [op |-> "request", max_retries |-> max_retries, outcomes |-> outcomes,
                      answer |-> request(max_retries, outcomes)]
  /\ UNCHANGED <<pollVars, dbVars, schedVars, gpuVars, pipeVars, remoteVars, lifeVars,
                 current_hashrate>>

\* a call of _submit_solution_direct by the pipeline
SubmitDirectCall ==
  /\ \E outcome \in HttpOutcomes :
       returned' = [op |-> "submit", outcome |-> outcome,
                    answer |-> submit_solution_direct(outcome),
                    kept |-> KeptAfter(submit_solution_direct(outcome))]
  /\ UNCHANGED <<pollVars, dbVars, schedVars, gpuVars, pipeVars, remoteVars, lifeVars,
                 current_hashrate>>

NextRequest ==
  \/ RequestCall
  \/ SubmitDirectCall

SpecRequest == InitWallets /\ [][NextRequest]_vars

IsCall(op) == "op" \in DOMAIN returned /\ returned.op = op
Success(o) == o.kind = "response" /\ o.status = 200
ClientError(o) == o.kind = "response" /\ o.status \in {400, 404, 409}
Ends(o) == Success(o) \/ ClientError(o)
\* the attempt at which the call ends: the first success or client error, else the last
EndingAttempt(max_retries, outcomes) ==
  IF \E k \in 1..max_retries : Ends(outcomes[k])
  THEN CHOOSE k \in 1..max_retries :
         Ends(outcomes[k]) /\ \A j \in 1..(k - 1) : ~Ends(outcomes[j])
  ELSE max_retries

\* C26: a call of _request makes at most max_retries attempts; it returns on the
\* first successful response, raises the HTTP error at once on a 4xx other than
\* 429, goes on after a 5xx, a 429, a timeout or a connection error (or any other
\* exception) with a pause of retry_delay_base^attempt between two attempts and
\* none after the last, and raises once the attempts are used up.
C26_BoundedAttemptsWithBackoff ==
  IsCall("request") =>
    LET n == returned.max_retries
        o == returned.outcomes
        a == returned.answer
        k == EndingAttempt(n, o)
    IN /\ a.attempts <= n
       /\ a.attempts = k
       /\ a.pauses = [i \in 1..(k - 1) |-> Power(retry_delay_base, i - 1)]
       /\ (k >= 1 /\ Success(o[k]) => a.result = "returned")
       /\ (k >= 1 /\ ClientError(o[k]) =>
             a.result = "raised" /\ a.error = "http" /\ a.status = o[k].status)
       /\ (k = 0 \/ (k >= 1 /\ ~Ends(o[k])) => a.result = "raised" /\ a.error = "exhausted")

\* a server error, a timeout and then a success, with pauses of 1 and 2
C26_ThirdAttemptSucceeds ==
  /\ IsCall("request")
  /\ returned.max_retries = 3
  /\ returned.outcomes[1] = [kind |-> "response", status |-> 500]
  /\ returned.outcomes[2] = [kind |-> "timeout", status |-> 0]
  /\ returned.answer = [result |-> "returned", error |-> "none", status |-> 200,
                        attempts |-> 3, pauses |-> <<1, 2>>]

\* C27: _submit_solution_direct makes exactly one attempt and answers (true, false)
\* on a successful response, (false, true) exactly on status 400 or 409, and
\* (false, false) on every other failure; the pipeline drops the item in the first
\* two cases and keeps it in the third.
C27_DirectSubmitClassifies ==
  IsCall("submit") =>
    LET o == returned.outcome
        a == returned.answer
        rejected == o.kind = "response" /\ o.status \in {400, 409}
    IN /\ a.attempts = 1
       /\ a.success = Success(o)
       /\ a.is_fatal = rejected
       /\ returned.kept = (~Success(o) /\ ~rejected)

\* a 404 was answered: not fatal, and the item stays in the retry list
C27_NotFoundIsKept ==
  /\ IsCall("submit")
  /\ returned.outcome = [kind |-> "response", status |-> 404]
  /\ returned.answer.success = FALSE
  /\ returned.answer.is_fatal = FALSE
  /\ returned.kept

(***************************************************************************)
(* GPUEngine._execute_mine of gpu_core/engine.py (under SpecEngine)        *)
(***************************************************************************)
\* mine requests put on the channel in a run, and requests waiting at a time
MaxEngineRequests == 3
MaxQueued == 2
\* engine.py:183-184  block_size, grid_size
BLOCK_SIZE == 256
GRID_SIZE == 256

EngineRoms == {"r1", "unbuildable"}
\* rom_handler.build_rom(rom_key) returns a ROM
CanBuild(rom_key) == rom_key = "r1"

\* miner_manager.py:312-317  the request the scheduler sends, for n tasks
SchedulerRequest(id, rom_key, n) ==
  [id |-> id, type |-> "mine", rom_key |-> rom_key,
   tasks |-> [i \in 1..n |-> DispatchDifficulty(D10)]]

\* engine.py:157-159  a request with the fields _execute_mine reads
FlatRequest(id, rom_key) ==
  [id |-> id, type |-> "mine", rom_key |-> rom_key, salt_prefix |-> "s",
   difficulty |-> DispatchDifficulty(D10), start_nonce |-> 0]

\* the error answer, had it not carried the id of the request
ErrorResponse_anonymous(req) ==
  [request_id |-> 0, error |-> TRUE, task_results |-> <<>>, found |-> FALSE,
   nonce |-> NoNonce, hashes |-> NoSample.hashes, duration |-> NoSample.duration]

\* engine.py:235-241  {'request_id': req['id'], 'error': str(e)}
ErrorResponse(req) ==
  [request_id |-> req.id, error |-> TRUE, task_results |-> <<>>, found |-> FALSE,
   nonce |-> NoNonce, hashes |-> NoSample.hashes, duration |-> NoSample.duration]

\* engine.py:142-241  _execute_mine(req); kernel is what the launch comes to:
\* "raises", "nothing" or "found".  A field the request lacks raises KeyError,
\* which the except clause answers like any other exception.
execute_mine(req, kernel) ==
  IF ~CanBuild(req.rom_key) THEN ErrorResponse(req)
  ELSE IF ~({"salt_prefix", "difficulty", "start_nonce"} \subseteq DOMAIN req)
  THEN ErrorResponse(req)
  ELSE IF kernel = "raises" THEN ErrorResponse(req)
  ELSE [request_id |-> req.id, error |-> FALSE, task_results |-> <<>>,
        found |-> kernel = "found", nonce |-> IF kernel = "found" THEN 1 ELSE NoNonce,
        hashes |-> BLOCK_SIZE * GRID_SIZE, duration |-> 1]

\* a mine request is put on the request channel
PutRequest ==
  /\ req_id < MaxEngineRequests
  /\ Len(gpu_queue) < MaxQueued
  /\ req_id' = req_id + 1
  /\ \E rom_key \in EngineRoms :
       \/ \E n \in 1..max_workers :
            gpu_queue' = Append(gpu_queue, SchedulerRequest(req_id + 1, rom_key, n))
       \/ gpu_queue' = Append(gpu_queue, FlatRequest(req_id + 1, rom_key))
  /\ UNCHANGED <<pollVars, dbVars, sched_pc, wallets, dev_wallets, wallet_index,
                 dev_wallet_index, batch_metadata, session_solutions, dev_session_solutions,
                 wallet_session_solutions, gpu_response_queue, pipeVars, remoteVars,
                 returned, lifeVars, current_hashrate>>

\* engine.py:125-140  the worker takes the next request and runs _execute_mine
WorkerServe ==
  /\ gpu_process = "serving"
  /\ gpu_queue # <<>>
  /\ Head(gpu_queue).type = "mine"
  /\ \E kernel \in {"raises", "nothing", "found"} :
       gpu_response_queue' = Append(gpu_response_queue, execute_mine(Head(gpu_queue), kernel))
  /\ gpu_queue' = Tail(gpu_queue)
  /\ UNCHANGED <<pollVars, dbVars, schedVars, pipeVars, remoteVars, returned, lifeVars,
                 current_hashrate>>

NextEngine ==
  \/ PutRequest
  \/ WorkerServe

SpecEngine == InitWallets /\ [][NextEngine]_vars

Dequeues == gpu_queue # <<>> /\ Len(gpu_queue') < Len(gpu_queue)

C29_SchedulerRequestCompleted ==
  [][Dequeues /\ "tasks" \in DOMAIN Head(gpu_queue) /\ CanBuild(Head(gpu_queue).rom_key)
       => /\ ~Last(gpu_response_queue').error
          /\ Len(Last(gpu_response_queue').task_results) = Len(Head(gpu_queue).tasks)]_vars

(***************************************************************************)
(* The batch of a cycle on its own: any content of the two pools, of the   *)
(* challenges table and of the solve records, under any worker count       *)
(***************************************************************************)
\* rows of the wallets table when the batch is explored on its own
MaxPool == 3
BatchRoms == {"r1", "r2"}
BatchIds == <<"c1", "c2", "c3", "c4">>
\* the later a row, the lower its difficulty value
BatchDifficulties == <<D20, D10, D10, D10>>
BatchTables == UNION {[1..n -> BatchRoms] : n \in 1..MaxRows}
\* which rows of the wallets table are fee wallets
PoolTables == UNION {[1..n -> BOOLEAN] : n \in 0..MaxPool}
\* miner_manager.py:116  max(1, config.get("miner.max_workers", 1))
WorkerCounts == 1..MaxPool

\* The scheduler at the top of a cycle (miner_manager.py:154): the pools are those
\* of the wallets table, the polled challenge is the row registered last, and
\* returned holds the worker count read at line 116.
BatchStart(tables, pools, counts) ==
  /\ \E t \in tables :
       db_challenges = [i \in 1..Len(t) |->
                          Challenge(BatchIds[i], BatchDifficulties[i], t[i],
                                    Aware(HalfDay))]
  /\ latest_challenge = db_challenges[Len(db_challenges)]
  /\ \E f \in pools :
       db_wallets = [i \in 1..Len(f) |-> [address |-> i, is_dev_wallet |-> f[i]]]
  /\ wallet_challenges \in
       SUBSET ((1..Len(db_wallets)) \X {db_challenges[i].challenge_id :
                                          i \in 1..Len(db_challenges)})
  /\ wallets = get_wallets(db_wallets)
  /\ dev_wallets = get_dev_wallets(db_wallets)
  /\ wallet_index = 0
  /\ dev_wallet_index = 0
  /\ returned \in [max_workers : counts]
  /\ poller_pc = "fetch"
  /\ sched_pc = "cycle"
  /\ solutions = <<>>
  /\ req_id = 0
  /\ batch_metadata = <<>>
  /\ session_solutions = 0
  /\ dev_session_solutions = 0
  /\ wallet_session_solutions = <<>>
  /\ gpu_queue = <<>>
  /\ gpu_response_queue = <<>>
  /\ queue = <<>>
  /\ retry_queue = <<>>
  /\ remote_accepted = {}
  /\ remote_rejected = {}
  /\ late_calls = {}
  /\ call_flags = {}
  /\ Started
  /\ current_hashrate = NoHashrate

InitBatch == BatchStart(BatchTables, PoolTables, WorkerCounts)

\* miner_manager.py:154-319  a cycle that dispatches, under the configured count
BatchDispatch == CycleDispatchWith(returned.max_workers)

\* miner_manager.py:154-251, 415-417  a cycle that ends before gpu_queue.put
BatchSkip == CycleSkipWith(returned.max_workers)

NextBatch ==
  \/ BatchDispatch
  \/ BatchSkip

SpecBatch == InitBatch /\ [][NextBatch]_vars

BatchWallets(batch) == {batch[i].wallet : i \in 1..Len(batch)}
Members(pool) == {pool[i] : i \in 1..Len(pool)}

\* C30: every dispatched batch has between 1 and max_workers entries; its wallets
\* are pairwise distinct and all belong to one pool (the user pool or the fee
\* pool as the cycle leaves them); every entry after the first carries the
\* challenge the best-unsolved query returns for its wallet in that cycle, and
\* this challenge has the ROM key of the first entry; with max_workers = 1 the
\* batch has exactly one entry.
C30_BatchComposition ==
  [][DispatchStep =>
       LET batch == batch_metadata'
           n == Len(batch)
       IN /\ 1 <= n /\ n <= returned.max_workers
          /\ \A i, j \in 1..n : i # j => batch[i].wallet # batch[j].wallet
          /\ \E pool \in {wallets', dev_wallets'} : BatchWallets(batch) \subseteq Members(pool)
          /\ \A i \in 2..n :
               /\ batch[i].challenge # NoChallenge
               /\ batch[i].challenge = get_unsolved_challenge_for_wallet(batch[i].wallet)
               /\ batch[i].challenge.no_pre_mine = batch[1].challenge.no_pre_mine
          /\ returned.max_workers = 1 => n = 1]_vars

\* a batch of two entries was dispatched although three workers are configured:
\* a third wallet of the pool has eligible work, but for another ROM key
C30_OtherRomLeftOut ==
  /\ sched_pc = "wait"
  /\ returned.max_workers = 3
  /\ Len(batch_metadata) = 2
  /\ \E pool \in {wallets, dev_wallets} :
       /\ BatchWallets(batch_metadata) \subseteq Members(pool)
       /\ \E w \in Members(pool) \ BatchWallets(batch_metadata) :
            /\ get_unsolved_challenge_for_wallet(w) # NoChallenge
            /\ get_unsolved_challenge_for_wallet(w).no_pre_mine
                 # batch_metadata[1].challenge.no_pre_mine

(***************************************************************************)
(* Cycles over challenges that may lack a ROM key                          *)
(***************************************************************************)
\* rows of the wallets table when ROM-less challenges are explored
MaxRomlessPool == 2
\* database.py:233-248  no_pre_mine is stored as the service sent it, "" included
RomlessRoms == {"r1", NoRom}
RomlessTables == UNION {[1..n -> RomlessRoms] : n \in 1..MaxRows}
RomlessPools == UNION {[1..n -> BOOLEAN] : n \in 1..MaxRomlessPool}

InitRomless == BatchStart(RomlessTables, RomlessPools, 1..MaxRomlessPool)

SpecRomless == InitRomless /\ [][NextBatch]_vars

\* the selection of a cycle, for one outcome of the fee draw and of the creations
Selections ==
  {Select(use_dev_wallet, made, dev_made) :
     use_dev_wallet \in BOOLEAN, made \in 0..1, dev_made \in 0..dev_wallet_floor}

\* whatever the fee draw, the cycle selects a challenge without a ROM key
SelectsRomless ==
  /\ sched_pc = "cycle"
  /\ \A sel \in Selections : ~sel.raised /\ sel.challenge.no_pre_mine = NoRom

\* C31: when the selected challenge has no ROM key, the cycle sends no request to
\* the compute worker and leaves the request id counter, the session counters,
\* the pending submissions and the solve records unchanged; the loop then
\* continues with a new cycle.
C31_RomlessCycleSkips ==
  [][SelectsRomless =>
       /\ gpu_queue' = gpu_queue
       /\ req_id' = req_id
       /\ session_solutions' = session_solutions
       /\ dev_session_solutions' = dev_session_solutions
       /\ wallet_session_solutions' = wallet_session_solutions
       /\ queue' = queue
       /\ retry_queue' = retry_queue
       /\ wallet_challenges' = wallet_challenges
       /\ solutions' = solutions
       /\ batch_metadata' = batch_metadata
       /\ sched_pc' = "cycle"]_vars

\* a cycle was skipped for a ROM-less challenge of the second user wallet (the
\* cursor stands on it), and the next cycle will select a ROM-less challenge again
C31_SkippedOnSecondWallet ==
  /\ SelectsRomless
  /\ wallet_index = 1
  /\ req_id = 0
  /\ gpu_queue = <<>>

(***************************************************************************)
(* Further properties of the response handling (under Spec)                *)
(***************************************************************************)
\* the positions of the batch whose result says found but carries no nonce
NonceLess(response, n) ==
  {i \in 1..n : /\ i <= Len(GivenResults(response))
                /\ GivenResults(response)[i].found
                /\ GivenResults(response)[i].nonce = NoNonce}

PairAt(i) == <<batch_metadata[i].wallet, batch_metadata[i].challenge.challenge_id>>
ItemsFor(items, pair) ==
  Cardinality({k \in 1..Len(items) :
                 items[k].wallet_address = pair[1] /\ items[k].challenge_id = pair[2]})
RowsFor(rows, pair) ==
  Cardinality({k \in 1..Len(rows) :
                 rows[k].address = pair[1] /\ rows[k].challenge_id = pair[2]})

\* C32: a task result with found = true but no nonce causes no submission, no
\* solve record and no counter change for its pair, raises no error out of the
\* cycle (the response is consumed and the loop is at the next cycle), and the
\* remaining results of the same response are still processed: every position
\* with a reported nonce gets its submission.
C32_FoundWithoutNonceDiscarded ==
  [][(sched_pc = "wait" /\ gpu_response_queue # <<>> /\ sched_pc' # "wait"
        /\ ~Head(gpu_response_queue).error) =>
       LET response == Head(gpu_response_queue)
           n == Len(batch_metadata)
           found == FoundPositions(response, n)
       IN /\ sched_pc' = "cycle"
          /\ \A i \in NonceLess(response, n) :
               /\ ItemsFor(queue', PairAt(i)) = ItemsFor(queue, PairAt(i))
               /\ RowsFor(solutions', PairAt(i)) = RowsFor(solutions, PairAt(i))
               /\ PairAt(i) \in wallet_challenges' <=> PairAt(i) \in wallet_challenges
               /\ PairAt(i)[1] \in DOMAIN wallet_session_solutions =>
                    wallet_session_solutions'[PairAt(i)[1]]
                      = wallet_session_solutions[PairAt(i)[1]]
          /\ session_solutions' + dev_session_solutions'
               = session_solutions + dev_session_solutions + Len(found)
          /\ \A j \in 1..Len(found) :
               ItemsFor(queue', PairAt(found[j])) = ItemsFor(queue, PairAt(found[j])) + 1]_vars

\* the response at the head of the channel answers a batch of two tasks: found
\* without a nonce for the first, a nonce for the second
C32_NonceLessThenNonce ==
  /\ sched_pc = "wait"
  /\ Len(batch_metadata) = 2
  /\ gpu_response_queue # <<>>
  /\ ~Head(gpu_response_queue).error
  /\ NonceLess(Head(gpu_response_queue), 2) = {1}
  /\ FoundPositions(Head(gpu_response_queue), 2) = <<2>>

(***************************************************************************)
(* start() after stop() on the same MinerManager: the two channels are     *)
(* created in __init__ (miner_manager.py:17-18) and outlive a stop          *)
(***************************************************************************)
\* miner_manager.py:22-43, 129-151  start() is called again once stop() has
\* returned and the threads and the worker of the first run have ended: a new
\* worker and new threads use the channels of the first run as they were left;
\* the scheduler thread begins with its counters at zero
Restart ==
  /\ ~running
  /\ stops_made = 1
  /\ stop_calls = <<>>
  /\ sched_pc = "done" /\ poller_pc = "done"
  /\ ~Alive(gpu_process)
  /\ running' = TRUE
  /\ \E enabled \in BOOLEAN : gpu_process' = IF enabled THEN "initialising" ELSE "none"
  /\ sched_pc' = "start"
  /\ poller_pc' = "fetch"
  /\ dashboard_pc' = "loop"
  /\ latest_challenge' = NoChallenge
  /\ req_id' = 0
  /\ wallet_index' = 0
  /\ dev_wallet_index' = 0
  /\ batch_metadata' = <<>>
  /\ session_solutions' = 0
  /\ dev_session_solutions' = 0
  /\ wallet_session_solutions' = <<>>
  /\ current_hashrate' = NoHashrate
  /\ worker_signals' = <<>>
  /\ UNCHANGED <<dbVars, wallets, dev_wallets, gpuVars, pipeVars, remoteVars, returned,
                 stop_calls, stops_made, queue_running>>

\* miner_manager.py:154  while self.running, with as many requests as Spec explores
RestartCycleDispatch == running /\ CycleDispatch

\* main.py:47-49  the one call of stop() between the two runs
RestartStopCall == stops_made = 0 /\ sched_pc # "idle" /\ StopCall

NextRestart ==
  \/ StartUp
  \/ Restart
  \/ WorkerReady
  \/ WorkerShutdown
  \/ WorkerSignalled
  \/ LifeGpuRespond
  \/ RestartStopCall
  \/ StopEnter
  \/ StopAfterGraceful
  \/ StopAfterTerminate
  \/ StopAfterKill
  \/ LifePollFetch
  \/ PollRegister
  \/ PollerExit
  \/ Provision
  \/ RestartCycleDispatch
  \/ LifeProcessResponse
  \/ SchedulerExit

SpecRestart == InitLife /\ [][NextRestart]_vars

IndexIn(pool, w) == (CHOOSE k \in 1..Len(pool) : pool[k] = w) - 1

\* the primary wallet of the batch being dispatched was found by the scan of pool:
\* it is in the pool the cycle started with and the query has work for it
ScanSelected(pool) ==
  /\ DispatchStep
  /\ batch_metadata'[1].wallet \in Members(pool)
  /\ get_unsolved_challenge_for_wallet(batch_metadata'[1].wallet) # NoChallenge

\* C34: in both pools, when the scan selects the wallet at pool index i, the
\* pool's cursor becomes (i + 1) mod pool length.
C34_CursorMovesPastSelected ==
  [][/\ ScanSelected(wallets) =>
          wallet_index' = (IndexIn(wallets, batch_metadata'[1].wallet) + 1) % Len(wallets)
     /\ ScanSelected(dev_wallets) =>
          dev_wallet_index'
            = (IndexIn(dev_wallets, batch_metadata'[1].wallet) + 1) % Len(dev_wallets)]_vars

(***************************************************************************)
(* The passes of the pipeline, each with a record of what it handled       *)
(***************************************************************************)
NoPass == [flip |-> FALSE, rq |-> <<>>, outcomes |-> <<>>]

InitPass ==
  /\ latest_challenge = NoChallenge
  /\ poller_pc = "fetch"
  /\ db_challenges = <<>>
  /\ db_wallets = <<>>
  /\ wallet_challenges = {}
  /\ solutions = <<>>
  /\ sched_pc = "start"
  /\ wallets = <<>>
  /\ dev_wallets = <<>>
  /\ wallet_index = 0
  /\ dev_wallet_index = 0
  /\ req_id = 0
  /\ batch_metadata = <<>>
  /\ session_solutions = 0
  /\ dev_session_solutions = 0
  /\ wallet_session_solutions = <<>>
  /\ gpu_queue = <<>>
  /\ gpu_response_queue = <<>>
  /\ queue = <<>>
  /\ retry_queue = <<>>
  /\ remote_accepted = {}
  /\ remote_rejected = {}
  /\ late_calls = {}
  /\ call_flags = {}
  /\ returned = NoPass
  /\ Started
  /\ current_hashrate = NoHashrate

\* networking.py:53-107  one pass of the loop; returned keeps the retry list as
\* the pass handled it (after the drain) and the answers of the remote service
LoggedPass ==
  \E outcomes \in PassOutcomes(Len(retry_queue) + (IF queue # <<>> THEN 1 ELSE 0)) :
    /\ PassWith(1, outcomes)
    /\ returned' = [flip |-> ~returned.flip,
                    rq |-> IF queue # <<>> THEN Append(retry_queue, Head(queue))
                           ELSE retry_queue,
                    outcomes |-> outcomes]

\* submissions that may be pending together when the passes are explored
MaxTogether == 2
PassPairs == {<<w, "c1">> : w \in 1..MaxTogether}
\* networking.py:241-257  a caller submits a nonce for a pair that has nothing pending
PassEnqueue == EnqueueFor(PassPairs)

NextPass ==
  \/ Enqueue
  \/ LoggedPass
  \/ RetryWait
  \/ Tick(HalfDay)

SpecPass == InitPass /\ [][NextPass]_vars

\* submissions enqueued together and the passes that take them, the clock standing
NextDrain ==
  \/ PassEnqueue
  \/ LoggedPass

SpecDrain == InitPass /\ [][NextDrain]_vars

PairOf(item) == <<item.wallet_address, item.challenge_id>>
\* the items of the handled list that the pass called the remote service for
Called(log) == {i \in 1..Len(log.rq) : ~Expired(log.rq[i])}
\* the positions of the handled list whose call failed transiently, in order
Retained(log) ==
  SelectSeq([i \in 1..Len(log.rq) |-> i],
            LAMBDA i : i \in Called(log) /\ log.outcomes[i] = "transient")

\* C35: in each pass an item stays in the retry list exactly when its attempt in
\* that pass failed transiently; it is removed on success, on fatal rejection and
\* when its age (now - created_at) exceeds the retention horizon, in which case
\* no submission call is made for it in that pass; attempts is incremented
\* exactly once per submission call and at no other step.
C35_RetryListAfterPass ==
  [][IF returned'.flip # returned.flip
     THEN LET log == returned'
              kept == Retained(log)
          IN /\ Len(retry_queue') = Len(kept)
             /\ \A j \in 1..Len(kept) :
                  /\ PairOf(retry_queue'[j]) = PairOf(log.rq[kept[j]])
                  /\ retry_queue'[j].attempts = Min(log.rq[kept[j]].attempts + 1, MaxAttempts)
             /\ \A i \in 1..Len(log.rq) :
                  /\ (i \in Called(log) /\ log.outcomes[i] = "accepted")
                       => PairOf(log.rq[i]) \in remote_accepted'
                  /\ (i \in Called(log) /\ log.outcomes[i] = "fatal")
                       => PairOf(log.rq[i]) \in remote_rejected'
             /\ remote_accepted' \ remote_accepted
                  \subseteq {PairOf(log.rq[i]) : i \in {k \in Called(log) : log.outcomes[k] = "accepted"}}
             /\ remote_rejected' \ remote_rejected
                  \subseteq {PairOf(log.rq[i]) : i \in {k \in Called(log) : log.outcomes[k] = "fatal"}}
     ELSE /\ Len(retry_queue') = Len(retry_queue)
          /\ \A j \in 1..Len(retry_queue) : retry_queue'[j].attempts = retry_queue[j].attempts
          /\ \A j \in 1..Len(queue) : queue'[j].attempts = 0]_vars

\* a pass has dropped an expired item without a call although the remote service
\* would have accepted it, after an earlier attempt for it had failed
C35_ExpiredDroppedUncalled ==
  /\ returned.flip
  /\ \E i \in 1..Len(returned.rq) :
       /\ Expired(returned.rq[i])
       /\ returned.rq[i].attempts > 0
       /\ returned.outcomes[i] = "accepted"
       /\ PairOf(returned.rq[i]) \notin remote_accepted
       /\ ~PendingFor(PairOf(returned.rq[i]), retry_queue)


\* C36: at the start of each pass the pipeline moves every submission enqueued so
\* far into the retry list: after a pass the queue of new submissions is empty and
\* every submission that was in it has been handled by that pass.
C36_PassDrainsQueue ==
  [][returned'.flip # returned.flip =>
       /\ queue' = <<>>
       /\ \A j \in 1..Len(queue) :
            \E i \in 1..Len(returned'.rq) : PairOf(returned'.rq[i]) = PairOf(queue[j])]_vars

(***************************************************************************)
(* Consolidation of wallets: WalletManager._consolidate_wallet,            *)
(* consolidate_existing_wallets and the creation loops                     *)
(***************************************************************************)
\* rows of the wallets table when consolidation is explored
MaxConsolidated == 3

\* what becomes of one consolidation request (networking.py:293-312):
\*   "ok"           the request succeeds
\*   "conflict"     HTTP 409, already consolidated to this address
\*   "http_error"   another HTTP error status
\*   "unreachable"  time-outs or connection errors on every attempt
ConsolidationOutcomes == {"ok", "conflict", "http_error", "unreachable"}

\* networking.py:293-312  APIClient.consolidate_wallet answers True or False and
\* raises nothing
consolidate_wallet(outcome) == outcome \in {"ok", "conflict"}

\* wallet_manager.py:75-115  _consolidate_wallet: without a configured address no
\* request is made and nothing is marked; otherwise the wallet is marked when
\* consolidate_wallet answers True
UserMarks(configured, outcome) == configured /\ consolidate_wallet(outcome)

\* wallet_manager.py:224-227  the creation of a fee wallet: consolidate_wallet is
\* called, its answer is not looked at, and mark_wallet_consolidated follows
DevMarks(outcome) == TRUE

\* consolidation requests in the explored runs
MaxConsolidations == 5

NoConsolidation ==
  [configured |-> FALSE, marked |-> {}, satisfied |-> {}, failed |-> {}, requests |-> 0]

\* returned keeps, by address: marked, the rows with is_consolidated = 1;
\* satisfied, the wallets a request succeeded or was answered 409 for; failed, the
\* wallets whose last request failed; and the number of requests made
InitConsolidate ==
  /\ latest_challenge = NoChallenge
  /\ poller_pc = "fetch"
  /\ db_challenges = <<>>
  /\ db_wallets = <<>>
  /\ wallet_challenges = {}
  /\ solutions = <<>>
  /\ sched_pc = "start"
  /\ wallets = <<>>
  /\ dev_wallets = <<>>
  /\ wallet_index = 0
  /\ dev_wallet_index = 0
  /\ req_id = 0
  /\ batch_metadata = <<>>
  /\ session_solutions = 0
  /\ dev_session_solutions = 0
  /\ wallet_session_solutions = <<>>
  /\ gpu_queue = <<>>
  /\ gpu_response_queue = <<>>
  /\ queue = <<>>
  /\ retry_queue = <<>>
  /\ remote_accepted = {}
  /\ remote_rejected = {}
  /\ late_calls = {}
  /\ call_flags = {}
  /\ \E configured \in BOOLEAN : returned = [NoConsolidation EXCEPT !.configured = configured]
  /\ Started
  /\ current_hashrate = NoHashrate

\* the record after a request for wallet a with the given outcome
Requested(log, a, outcome, marks) ==
  [log EXCEPT !.marked = IF marks THEN @ \cup {a} ELSE @,
              !.satisfied = IF consolidate_wallet(outcome) THEN @ \cup {a} ELSE @,
              !.failed = IF consolidate_wallet(outcome) THEN @ \ {a} ELSE @ \cup {a},
              !.requests = @ + 1]

\* wallet_manager.py:130-149  ensure_wallets creates one user wallet and
\* consolidates it if an address is configured
CreateUserWallet ==
  /\ Len(db_wallets) < MaxConsolidated
  /\ db_wallets' = AddWallets(db_wallets, 1, FALSE)
  /\ \E outcome \in ConsolidationOutcomes :
       returned' = IF returned.configured
                   THEN Requested(returned, Len(db_wallets) + 1, outcome,
                                  UserMarks(returned.configured, outcome))
                   ELSE returned
  /\ UNCHANGED <<pollVars, db_challenges, wallet_challenges, solutions, schedVars, gpuVars,
                 pipeVars, remoteVars, lifeVars, current_hashrate>>

\* wallet_manager.py:189-234  ensure_dev_wallets creates one fee wallet and
\* consolidates it to the operator's address
CreateDevWallet ==
  /\ Len(db_wallets) < MaxConsolidated
  /\ db_wallets' = AddWallets(db_wallets, 1, TRUE)
  /\ \E outcome \in ConsolidationOutcomes :
       returned' = Requested(returned, Len(db_wallets) + 1, outcome, DevMarks(outcome))
  /\ UNCHANGED <<pollVars, db_challenges, wallet_challenges, solutions, schedVars, gpuVars,
                 pipeVars, remoteVars, lifeVars, current_hashrate>>

RECURSIVE ConsolidateEach(_, _, _)
\* wallet_manager.py:168-169  for wallet in unconsolidated: _consolidate_wallet(wallet)
ConsolidateEach(log, todo, outcomes) ==
  IF todo = <<>> THEN log
  ELSE ConsolidateEach(Requested(log, Head(todo), Head(outcomes),
                                 UserMarks(log.configured, Head(outcomes))),
                       Tail(todo), Tail(outcomes))

\* wallet_manager.py:156-169  consolidate_existing_wallets: the user wallets not
\* yet marked are consolidated, if an address is configured
ConsolidateExisting ==
  /\ returned.configured
  /\ LET unconsolidated == SelectSeq(get_wallets(db_wallets),
                                     LAMBDA a : a \notin returned.marked)
     IN /\ unconsolidated # <<>>
        /\ returned.requests + Len(unconsolidated) <= MaxConsolidations
        /\ \E outcomes \in [1..Len(unconsolidated) -> ConsolidationOutcomes] :
             returned' = ConsolidateEach(returned, unconsolidated, outcomes)
  /\ UNCHANGED <<pollVars, dbVars, schedVars, gpuVars, pipeVars, remoteVars, lifeVars,
                 current_hashrate>>

NextConsolidate ==
  \/ CreateUserWallet
  \/ CreateDevWallet
  \/ ConsolidateExisting

SpecConsolidate == InitConsolidate /\ [][NextConsolidate]_vars

\* C37: a wallet (user pool or fee pool) is marked consolidated in persistence
\* only if a consolidation request for it succeeded or was answered with a
\* conflict; a wallet whose consolidation request failed stays unmarked.
C37_MarkedOnlyWhenConsolidated ==
  /\ returned.marked \subseteq returned.satisfied
  /\ returned.failed \cap returned.marked = {}

(***************************************************************************)
(* The snapshot of the poller and the challenges table (under Spec)        *)
(***************************************************************************)
Registered(c) == \E i \in 1..Len(db_challenges) : db_challenges[i].challenge_id = c.challenge_id

\* C38: replacing the latest-challenge snapshot and registering the challenge are
\* atomic with respect to the scheduler: whenever a cycle of the scheduling loop
\* dispatches a batch, the challenge it read from the snapshot is registered.
C38_SnapshotIsRegistered ==
  [][DispatchStep => Registered(latest_challenge)]_vars


(***************************************************************************)
(* The wait for a response when the worker is gone (under FairSpecWorker)  *)
(***************************************************************************)
\* Every thread that can take its next step takes it: the poller fetches and
\* registers, the scheduler sets up, takes a response that is in the queue and
\* leaves its loop once self.running is false, and a serving worker answers.
\* Nothing obliges anybody to call stop().
FairSpecWorker ==
  /\ InitLife /\ [][NextLife]_vars
  /\ WF_vars(LifePollFetch)
  /\ WF_vars(PollRegister)
  /\ WF_vars(PollerExit)
  /\ WF_vars(Provision)
  /\ WF_vars(LifeGpuRespond)
  /\ WF_vars(LifeProcessResponse)
  /\ WF_vars(SchedulerExit)
  /\ WF_vars(DashboardExit)

\* miner_manager.py:319-330  the scheduler is in the wait for a response, the flag
\* is set, no worker process is alive and the response queue is empty
Abandoned ==
  /\ sched_pc = "wait"
  /\ running
  /\ ~Alive(gpu_process)
  /\ gpu_response_queue = <<>>

\* C39: when the worker has exited or faulted without answering the outstanding
\* request, or was never started, the scheduling loop eventually leaves its wait
\* for that request (to start another cycle, or to end) without the running flag
\* having to be cleared for that.
C39_AbandonedWaitEnds == Abandoned ~> (sched_pc # "wait" \/ ~running)


(***************************************************************************)
(* The query's difficulty value and the dispatch threshold (under SpecRank)*)
(***************************************************************************)
\* difficulty strings of the full width and a shorter one
RankDifficulties == {D10, D20, DShort}
RankDeadlines == {Missing, Aware(SAFETY_MARGIN + 1), Aware(HalfDay)}
RankTables ==
  UNION {[1..n -> [difficulty : RankDifficulties, no_pre_mine : QueryRoms,
                   latest_submission : RankDeadlines]] : n \in 0..MaxRows}

InitRank == QueryStart(RankTables)
SpecRank == InitRank /\ [][NextQuery]_vars

\* the registered challenges eligible for the wallet the query was called for
EligibleFor(w) == {i \in 1..Len(db_challenges) : Eligible(db_challenges[i], w)}

\* C40: the value by which the query ranks the challenge it returns equals the
\* threshold the scheduler derives for that challenge at dispatch, and no eligible
\* challenge has a lower dispatch threshold than the one returned.
C40_RankIsDispatchThreshold ==
  (returned.asked /\ returned.challenge # NoChallenge) =>
    /\ QueryDifficulty(returned.challenge.difficulty)
         = DispatchDifficulty(returned.challenge.difficulty)
    /\ \A i \in EligibleFor(returned.wallet) :
         DispatchDifficulty(returned.challenge.difficulty)
           <= DispatchDifficulty(db_challenges[i].difficulty)
=============================================================================
